---- MODULE Spec2Model ----
(***************************************************************************)
(* Deep-action-agent: the provider router (LLMProviderHandler.call_llm),   *)
(* the manager's iterative planner-executor loop                           *)
(* (ManagerAgent.execute_task_iterative) and the agents' tool dispatchers  *)
(* (_execute_tool_call), as state machines.                                *)
(*                                                                         *)
(* Three specifications share the module's variables; each one leaves the  *)
(* other components' variables at their initial values:                    *)
(*   SpecRouter  one top-level call of call_llm, adapters failing or       *)
(*               succeeding nondeterministically;                          *)
(*   SpecLoop    one run of execute_task_iterative;                        *)
(*   SpecTools   one _execute_tool_call of one agent.                      *)
(***************************************************************************)
EXTENDS Integers, Sequences, FiniteSets, TLC

VARIABLES
    \* ---- provider router (src/llm_providers/provider_handler.py) ----
    rstack,     \* call stack of call_llm frames, innermost last
    rcalls,     \* every adapter invocation so far: provider, outcome, depth
    rsleeps,    \* every time.sleep(2 ** attempt) of the retry loops
    rret,       \* what the top-level call_llm gave its caller
    rarg,       \* the top-level call's arguments
    \* ---- manager loop (src/agents/manager_agent.py) ----
    messages,   \* the transcript
    step,       \* the loop counter
    max_steps,  \* the argument max_steps
    pc,         \* position inside execute_task_iterative
    cur,        \* the turn in progress: message, finish, tool calls left
    result,     \* the value execute_task_iterative returned
    cancelled,  \* cancel_flag_file.exists()
    log,        \* provider calls, tool and critic dispatches and the return, in
                \* order, each with the value the cancel flag had then
    \* ---- tool dispatchers (_execute_tool_call of each agent) ----
    tagent,     \* whose dispatcher
    tcall,      \* the tool call handed in
    tphase,     \* "ready" | "done"
    tout,       \* the dispatcher's outcome: a returned string or a raise
    \* ---- top-level executor (main.execute_task_background) ----
    active_status,  \* active_tasks[task_id]["status"]
    task_result,    \* task_results[task_id]
    monitor_status, \* TaskMonitor.current_status of the task ("none": no monitor)
    \* ---- credential pool of one provider (LLMProviderHandler) ----
    kprovider,       \* the provider whose pool this is
    pool,            \* len(config.<PROVIDER>_API_KEYS); keys are 1..pool
    key_pos,         \* the key itertools.cycle yields next
    rate_limit_hits, \* rate_limit_hits[provider][key], 0 when absent
    api_key,         \* the key the adapter call in flight holds (0: none)
    key_hit,         \* that adapter call already ran _handle_rate_limit
    key_ok,          \* that adapter call returned the backend's response
    pick_count,      \* how often _get_next_key returned each key
    backoffs,        \* per key, the seconds _handle_rate_limit slept, in order
    \* ---- Gemini response conversion ----
    graw,            \* the backend's response
    gout,            \* what _convert_gemini_response_to_openai_format produced
    gphase,          \* "ready" | "done" | "next"
    gnext,           \* what _convert_to_gemini_format made of the transcript on the next call
    \* ---- call spacing (_wait_for_rate_limit), time in tenths of a second ----
    wprovider,       \* the provider the callers call
    wclock,          \* time.time()
    last_call_time,  \* self.last_call_time.get(provider, 0)
    wpc,             \* per caller: where it stands in _wait_for_rate_limit
    wnow,            \* per caller: its local "now"
    wwake,           \* per caller: when its time.sleep ends
    passes,          \* the times at which callers left _wait_for_rate_limit
    \* ---- TaskMonitor, time in seconds ----
    current_status,
    deviation_count,
    last_activity_time,
    mclock,                  \* time.time()
    expected_search_terms,
    search_queries_executed, \* its length
    content_extracted,       \* its length
    activities,              \* the activities logged, in order
    \* ---- event bus (tools/event_bus.py), one task id ----
    bus_queue,         \* the asyncio.Queue of the task id (absent until first used)
    published,         \* the events handed to publish, in order
    yielded,           \* the events subscribe yielded, in order
    subscriber,       \* "none" | "waiting" (in await queue.get())
    \* ---- process sandbox (tools/process_sandbox.py) ----
    sproc,             \* the child process: "none" | "running" | "exited" | "killed"
    sclock,            \* seconds since Popen returned
    stimeout,          \* the timeout argument
    sduration,         \* seconds the command runs when left alone
    sexit,             \* the exit code it would return
    sexited_at,        \* when it exited by itself (-1: it did not)
    sret,              \* what run_with_limits returned
    \* ---- one research phase (ManagerAgent._execute_research_phase) ----
    search_queries,    \* how many queries the phase holds, numbered 1..search_queries
    qstate,            \* per query, "pending" (before the semaphore) | "running" | "done"
    sem,               \* the semaphore's value
    batches,           \* per query, what run_query returned
    peak,              \* the largest number of queries that were running at once
    phase_results,     \* what _execute_research_phase returned
    phase_pc,          \* "gather" | "returned"
    \* ---- RateLimitManager.execute_with_backoff, one call ----
    xmax_retries,      \* config.max_retries of the provider
    xbase_delay,       \* config.base_delay of the provider, in seconds
    attempt,           \* the loop variable of execute_with_backoff
    xpc,               \* "try" | "returned" | "raised"
    xclock,            \* datetime.now(), in seconds
    last_failure,      \* stats['last_failure'] (-1 for None)
    consecutive_failures, \* stats['consecutive_failures']
    invocations,       \* how often func was invoked
    func_failures,     \* how often func itself raised
    xlast_exception,   \* "none" | "func" | "unavailable"
    \* ---- the module-level file_manager and code_interpreter, two tasks ----
    managers,          \* the tasks whose ManagerAgent was constructed
    fm_workspace_path, \* file_manager.workspace_path
    ci_workspace_root, \* code_interpreter.workspace_root
    tool_log,          \* the file and code tool calls made, each with the directory it used
    \* ---- CriticAgent.execute_task, one review ----
    iteration,         \* the loop counter of CriticAgent.execute_task
    last_message,      \* messages[-1], its role and content
    reply,             \* the critic model's latest reply
    critic_pc,         \* "loop" | "returned"
    critic_review      \* the string execute_task returned

rvars == <<rstack, rcalls, rsleeps, rret, rarg>>
lvars == <<messages, step, max_steps, pc, cur, result, cancelled, log>>
tvars == <<tagent, tcall, tphase, tout>>
evars == <<active_status, task_result, monitor_status>>
kvars == <<kprovider, pool, key_pos, rate_limit_hits, api_key, key_hit, key_ok,
           pick_count, backoffs>>
cvars == <<graw, gout, gphase, gnext>>
wvars == <<wprovider, wclock, last_call_time, wpc, wnow, wwake, passes>>
mvars == <<current_status, deviation_count, last_activity_time, mclock,
           expected_search_terms, search_queries_executed, content_extracted,
           activities>>
NoQueue == [exists |-> FALSE, items |-> << >>]
\* the components added after the credential pool and the monitor
bvars == <<bus_queue, published, yielded, subscriber>>
svars == <<sproc, sclock, stimeout, sduration, sexit, sexited_at, sret>>
pvars == <<search_queries, qstate, sem, batches, peak, phase_results,
           phase_pc>>
xvars == <<xmax_retries, xbase_delay, attempt, xpc, xclock, last_failure,
           consecutive_failures, invocations, func_failures, xlast_exception>>
yvars == <<managers, fm_workspace_path, ci_workspace_root, tool_log>>
avars == <<iteration, last_message, reply, critic_pc, critic_review>>
newvars == <<bvars, svars, pvars, xvars, yvars, avars>>
oldvars == <<rvars, lvars, tvars, evars, kvars, cvars, wvars, mvars>>
notbvars == <<oldvars, svars, pvars, xvars, yvars, avars>>
notsvars == <<oldvars, bvars, pvars, xvars, yvars, avars>>
notpvars == <<oldvars, bvars, svars, xvars, yvars, avars>>
notxvars == <<oldvars, bvars, svars, pvars, yvars, avars>>
notyvars == <<oldvars, bvars, svars, pvars, xvars, avars>>
notavars == <<oldvars, bvars, svars, pvars, xvars, yvars>>
BusIdle ==
    bus_queue = NoQueue /\ published = << >> /\ yielded = << >> /\ subscriber = "idle"
SandboxIdle ==
    sproc = "none" /\ sclock = 0 /\ stimeout = 0 /\ sduration = 0 /\ sexit = 0 /\ sexited_at = 0 /\ sret = << >>
PhaseIdle ==
    /\ search_queries = 0 /\ qstate = << >> /\ sem = 0 /\ batches = << >>
    /\ peak = 0 /\ phase_results = << >> /\ phase_pc = "idle"
BackoffIdle ==
    /\ xmax_retries = 0 /\ xbase_delay = 0 /\ attempt = 0 /\ xpc = "idle"
    /\ xclock = 0 /\ last_failure = 0 /\ consecutive_failures = 0
    /\ invocations = 0 /\ func_failures = 0 /\ xlast_exception = "idle"
WorkspaceIdle ==
    managers = {} /\ fm_workspace_path = "idle" /\ ci_workspace_root = "idle" /\ tool_log = << >>
CriticIdle ==
    iteration = 0 /\ last_message = << >> /\ reply = << >> /\ critic_pc = "idle" /\ critic_review = << >>
NewIdle == BusIdle /\ SandboxIdle /\ PhaseIdle /\ BackoffIdle /\ WorkspaceIdle /\ CriticIdle
BusAlone ==
    SandboxIdle /\ PhaseIdle /\ BackoffIdle /\ WorkspaceIdle /\ CriticIdle
SandboxAlone ==
    BusIdle /\ PhaseIdle /\ BackoffIdle /\ WorkspaceIdle /\ CriticIdle
PhaseAlone ==
    BusIdle /\ SandboxIdle /\ BackoffIdle /\ WorkspaceIdle /\ CriticIdle
BackoffAlone ==
    BusIdle /\ SandboxIdle /\ PhaseIdle /\ WorkspaceIdle /\ CriticIdle
WorkspaceAlone ==
    BusIdle /\ SandboxIdle /\ PhaseIdle /\ BackoffIdle /\ CriticIdle
CriticAlone ==
    BusIdle /\ SandboxIdle /\ PhaseIdle /\ BackoffIdle /\ WorkspaceIdle
ovars == <<kvars, cvars, wvars, mvars, newvars>>
vars == <<rvars, lvars, tvars, evars, ovars>>

(***************************************************************************)
(* Bounds of the model.                                                    *)
(***************************************************************************)
\* largest max_retries a top-level call is given
MaxRetries == 3
\* depth at which the interpreter refuses another call_llm frame
\* (sys.getrecursionlimit() frames in CPython; a bound here)
RecursionLimit == 4

Providers == {"openrouter", "gemini"}

Pow2(n) == 2 ^ n

(***************************************************************************)
(* Provider router.                                                        *)
(***************************************************************************)
NoException == [type |-> "None", status |-> 0, by |-> "none", n |-> 0]
RecursionError == [type |-> "RecursionError", status |-> 0, by |-> "none", n |-> 0]

\* What one adapter invocation (_call_openrouter / _call_gemini) can do:
\* return a response, or raise requests' HTTPError (raise_for_status, with
\* the Response attached) or Timeout / ConnectionError (response None).
AdapterOutcomes == {"ok", "http429", "http500", "timeout"}

AdapterException(outcome, provider, n) ==
    CASE outcome = "http429" -> [type |-> "HTTPError", status |-> 429, by |-> provider, n |-> n]
      [] outcome = "http500" -> [type |-> "HTTPError", status |-> 500, by |-> provider, n |-> n]
      [] OTHER               -> [type |-> "Timeout", status |-> 0, by |-> provider, n |-> n]

\* bool(e.response): None is falsy, and requests.Response.__bool__ is
\* Response.ok, i.e. False for every status >= 400.
ResponseTruthy(e) == e.type = "HTTPError" /\ e.status < 400

\* provider_handler.py:368
\*   hasattr(e, 'response') and e.response and e.response.status_code == 429
IsRateLimitError(e) ==
    /\ e.type \in {"HTTPError", "Timeout"}
    /\ ResponseTruthy(e)
    /\ e.status = 429

FallbackProvider(provider) == IF provider = "openrouter" THEN "gemini" ELSE "openrouter"

\* provider_handler.py:386  raise last_exception
ReraiseFallback(last_exception, fallback_exception) == fallback_exception
Reraise(last_exception, fallback_exception) == last_exception

Frame(provider, k) ==
    [provider |-> provider, max_retries |-> k, attempt |-> 0,
     last_exception |-> NoException, pc |-> "try", raising |-> NoException]

Top == rstack[Len(rstack)]
SetTop(f) == [rstack EXCEPT ![Len(rstack)] = f]
Pop == SubSeq(rstack, 1, Len(rstack) - 1)

LoopIdle ==
    /\ messages = << >> /\ step = 0 /\ max_steps = 0 /\ pc = "idle"
    /\ cur = << >> /\ result = << >> /\ cancelled = FALSE /\ log = << >>
ToolsIdle ==
    /\ tagent = "none" /\ tcall = << >> /\ tphase = "idle" /\ tout = << >>
ExecutorIdle ==
    /\ active_status = "idle" /\ task_result = << >> /\ monitor_status = "none"
KeysIdle ==
    /\ kprovider = "none" /\ pool = 0 /\ key_pos = 0 /\ rate_limit_hits = << >>
    /\ api_key = 0 /\ key_hit = FALSE /\ key_ok = FALSE
    /\ pick_count = << >> /\ backoffs = << >>
ConvertIdle == graw = << >> /\ gout = << >> /\ gphase = "idle" /\ gnext = << >>
WaitIdle ==
    /\ wprovider = "none" /\ wclock = 0 /\ last_call_time = 0 /\ wpc = << >>
    /\ wnow = << >> /\ wwake = << >> /\ passes = << >>
MonitorIdle ==
    /\ current_status = "none" /\ deviation_count = 0 /\ last_activity_time = 0
    /\ mclock = 0 /\ expected_search_terms = {} /\ search_queries_executed = 0
    /\ content_extracted = 0 /\ activities = << >>
OthersIdleOld == KeysIdle /\ ConvertIdle /\ WaitIdle /\ MonitorIdle
OthersIdle == OthersIdleOld /\ NewIdle
RouterIdle ==
    /\ rstack = << >> /\ rcalls = << >> /\ rsleeps = << >>
    /\ rret = [kind |-> "idle"] /\ rarg = << >>

CoreIdle == RouterIdle /\ LoopIdle /\ ToolsIdle /\ ExecutorIdle

OldIdle == CoreIdle /\ OthersIdleOld

RouterInit ==
    /\ \E p \in Providers, k \in 1..MaxRetries :
         /\ rarg = [provider |-> p, max_retries |-> k]
         /\ rstack = << Frame(p, k) >>
    /\ rcalls = << >>
    /\ rsleeps = << >>
    /\ rret = [kind |-> "pending"]
    /\ LoopIdle /\ ToolsIdle /\ ExecutorIdle /\ OthersIdle

\* provider_handler.py:355-359: the adapter returns; every frame waiting on
\* this one is at "return self.call_llm(...)" and returns the same response.
AdapterReturns ==
    /\ rstack # << >> /\ Top.pc = "try"
    /\ rcalls' = Append(rcalls, [provider |-> Top.provider, outcome |-> "ok",
                                 depth |-> Len(rstack)])
    /\ rret' = [kind |-> "ok", by |-> Top.provider, n |-> Len(rcalls) + 1]
    /\ rstack' = << >>
    /\ UNCHANGED <<rsleeps, rarg, lvars, tvars, evars, ovars>>

\* provider_handler.py:363-373: the adapter raises inside the retry loop.
AdapterRaises ==
    /\ rstack # << >> /\ Top.pc = "try"
    /\ \E outcome \in AdapterOutcomes \ {"ok"} :
         LET e == AdapterException(outcome, Top.provider, Len(rcalls) + 1)
             f == [Top EXCEPT !.last_exception = e]
         IN /\ rcalls' = Append(rcalls, [provider |-> Top.provider,
                                         outcome |-> outcome, depth |-> Len(rstack)])
            /\ IF IsRateLimitError(e)
               THEN \* break
                    /\ rstack' = SetTop([f EXCEPT !.pc = "fallback"])
                    /\ rsleeps' = rsleeps
               ELSE IF Top.attempt < Top.max_retries - 1
               THEN /\ rsleeps' = Append(rsleeps, [secs |-> Pow2(Top.attempt),
                                                   depth |-> Len(rstack),
                                                   after |-> Len(rcalls) + 1])
                    /\ rstack' = SetTop([f EXCEPT !.attempt = @ + 1])
               ELSE \* range(max_retries) is exhausted
                    /\ rstack' = SetTop([f EXCEPT !.attempt = @ + 1, !.pc = "fallback"])
                    /\ rsleeps' = rsleeps
    /\ UNCHANGED <<rret, rarg, lvars, tvars, evars, ovars>>

\* provider_handler.py:376-382: the recursive call with max_retries=1.
CallFallback ==
    /\ rstack # << >> /\ Top.pc = "fallback"
    /\ Len(rstack) < RecursionLimit
    /\ rstack' = Append(SetTop([Top EXCEPT !.pc = "await"]),
                        Frame(FallbackProvider(Top.provider), 1))
    /\ UNCHANGED <<rcalls, rsleeps, rret, rarg, lvars, tvars, evars, ovars>>

\* The interpreter refuses the next frame: RecursionError is an Exception,
\* so provider_handler.py:383-386 catches it and raises last_exception.
CallFallbackRefused ==
    /\ rstack # << >> /\ Top.pc = "fallback"
    /\ Len(rstack) = RecursionLimit
    /\ rstack' = SetTop([Top EXCEPT !.pc = "raise",
                                    !.raising = Reraise(Top.last_exception, RecursionError)])
    /\ UNCHANGED <<rcalls, rsleeps, rret, rarg, lvars, tvars, evars, ovars>>

\* provider_handler.py:383-386: the fallback call raised into its caller.
FallbackRaised ==
    /\ Len(rstack) > 1 /\ Top.pc = "raise"
    /\ LET caller == rstack[Len(rstack) - 1]
       IN rstack' = [Pop EXCEPT ![Len(rstack) - 1] =
                        [caller EXCEPT !.pc = "raise",
                                       !.raising = Reraise(caller.last_exception, Top.raising)]]
    /\ UNCHANGED <<rcalls, rsleeps, rret, rarg, lvars, tvars, evars, ovars>>

\* The top-level call_llm raises to its caller.
RouterRaises ==
    /\ Len(rstack) = 1 /\ Top.pc = "raise"
    /\ rret' = [kind |-> "exc", exc |-> Top.raising]
    /\ rstack' = << >>
    /\ UNCHANGED <<rcalls, rsleeps, rarg, lvars, tvars, evars, ovars>>

RouterNext ==
    \/ AdapterReturns
    \/ AdapterRaises
    \/ CallFallback
    \/ CallFallbackRefused
    \/ FallbackRaised
    \/ RouterRaises

SpecRouter == RouterInit /\ [][RouterNext]_vars

(***************************************************************************)
(* Canonical messages.  A Python string is a sequence of tokens (single    *)
(* characters where the code looks inside a string, whole literals where   *)
(* it does not); a message's content is absent (no key), null or a string. *)
(***************************************************************************)
\* largest max_steps execute_task_iterative is given
MaxSteps == 2

Absent == [tag |-> "absent", txt |-> << >>]
Null == [tag |-> "null", txt |-> << >>]
Str(txt) == [tag |-> "str", txt |-> txt]
\* Python truthiness of message.get('content')
Truthy(content) == content.tag = "str" /\ content.txt # << >>
IsString(value) == value.tag = "str"

DigitStr(n) == <<"1", "2", "3", "4", "5", "6", "7", "8", "9", "10", "11", "12">>[n]

NoId == << >>
Msg(role, content, tool_calls, tool_call_id) ==
    [role |-> role, content |-> content, tool_calls |-> tool_calls,
     tool_call_id |-> tool_call_id]

\* dict.get('content', default): the default only when the key is missing
GetContent(msg, default) == IF msg.content.tag = "absent" THEN default ELSE msg.content

TaskCompleted == Str(<<"Task completed">>)
TaskCancelled == Str(<<"Task cancelled">>)
TaskFailed == Str(<<"Task failed: ", "provider error">>)
ResearchCompleted == Str(<<"{\"message\": \"Research completed\", ...}">>)

SystemPrompt == Msg("system", Str(<<"system prompt">>), << >>, NoId)
PlanPrompt == Msg("user", Str(<<"Plan and execute the task end-to-end: ", "task">>), << >>, NoId)
ReflectionPrompt ==
    Msg("user", Str(<<"Critically review the current solution ... or CONFIRM if acceptable.">>),
        << >>, NoId)
CritiquePrompt(review) ==
    Msg("user", Str(<<"Incorporate this critique and finalize: ">> \o review), << >>, NoId)

(***************************************************************************)
(* Provider adapters: what the backend sends and what the loop receives.   *)
(***************************************************************************)
ToolCall(id, name) == [id |-> id, name |-> name, arguments |-> "{}"]

\* the function names a response asks for, in order
ToolCallShapes ==
    { << >>, <<"web_search">>, <<"web_search", "web_search">>,
      <<"web_search", "no_such_tool">> }

RECURSIVE CallsIssued(_)
CallsIssued(msgs) ==
    IF msgs = << >> THEN 0
    ELSE Len(msgs[Len(msgs)].tool_calls) + CallsIssued(SubSeq(msgs, 1, Len(msgs) - 1))

\* OpenRouter: response.json() is handed on as it is (provider_handler.py:133).
\* The backend numbers its tool calls itself; its ids do not repeat.
OpenRouterResponses(n, issued) ==
    { [shape |-> "choices",
       message |-> Msg("assistant", c,
                       [i \in 1..Len(names) |->
                            ToolCall(<<"call_", DigitStr(issued + i)>>, names[i])],
                       NoId),
       finish |-> f] :
        c \in {Null, Str(<< >>), Str(<<"answer ", DigitStr(n)>>)},
        names \in ToolCallShapes,
        f \in {"stop", "length"} }
    \cup { [shape |-> "no_choices", message |-> Msg("assistant", Str(<< >>), << >>, NoId),
            finish |-> "null"],
           [shape |-> "no_message", message |-> Msg("assistant", Absent, << >>, NoId),
            finish |-> "stop"] }

\* Gemini: the backend's candidates[0], its parts in order.
GeminiRaw(n) ==
    { [candidates |-> 1, blockReason |-> FALSE, texts |-> t, calls |-> names,
       finishReason |-> fr] :
        t \in { << >>, << << >> >>, << <<"answer ", DigitStr(n)>> >>,
                << <<"answer ", DigitStr(n)>>, <<"more">> >> },
        names \in ToolCallShapes,
        fr \in {"STOP", "MAX_TOKENS", "OTHER"} }
    \cup { [candidates |-> 0, blockReason |-> b, texts |-> << >>, calls |-> << >>,
            finishReason |-> "STOP"] : b \in BOOLEAN }

\* " ".join(text_parts)
RECURSIVE JoinWithSpace(_)
JoinWithSpace(parts) ==
    IF parts = << >> THEN << >>
    ELSE IF Len(parts) = 1 THEN parts[1]
    ELSE parts[1] \o <<" ">> \o JoinWithSpace(Tail(parts))

\* provider_handler.py:289  "id": f"call_{func_call['name']}"
GeminiToolCallId(name) == <<"call_", name>>

GeminiFinishReason(fr) ==
    CASE fr = "STOP" -> "stop"
      [] fr = "MAX_TOKENS" -> "length"
      [] fr = "SAFETY" -> "content_filter"
      [] fr = "TOOL_CALLS" -> "tool_calls"
      [] OTHER -> "stop"

\* _convert_gemini_response_to_openai_format
ConvertGeminiResponse(raw) ==
    IF raw.candidates = 0
    THEN IF raw.blockReason
         THEN [shape |-> "choices",
               message |-> Msg("assistant", Str(<< >>), << >>, NoId),
               finish |-> "content_filter"]
         ELSE [shape |-> "raise", message |-> Msg("assistant", Absent, << >>, NoId),
               finish |-> "ValueError"]
    ELSE LET content == JoinWithSpace(raw.texts)
         IN [shape |-> "choices",
             message |-> Msg("assistant",
                             IF content # << >> THEN Str(content) ELSE Absent,
                             [i \in 1..Len(raw.calls) |->
                                  ToolCall(GeminiToolCallId(raw.calls[i]), raw.calls[i])],
                             NoId),
             finish |-> GeminiFinishReason(raw.finishReason)]

\* provider_handler.py:210-252  _convert_to_gemini_format.  msg["content"]
\* is read of every message: a message without the key raises KeyError.
GeminiPart(role, txt) == [role |-> role, text |-> txt]
RECURSIVE GeminiMessages(_, _, _)
GeminiMessages(msgs, system_message_content, gemini_messages) ==
    IF msgs = << >> THEN gemini_messages
    ELSE LET msg == Head(msgs)
             content == msg.content
         IN IF msg.role = "user"
            THEN IF system_message_content # << >> /\ gemini_messages = << >>
                 THEN GeminiMessages(Tail(msgs), << >>,
                        <<GeminiPart("user", system_message_content \o <<"\n\n">> \o content.txt)>>)
                 ELSE GeminiMessages(Tail(msgs), system_message_content,
                        Append(gemini_messages, GeminiPart("user", content.txt)))
            ELSE IF msg.role = "assistant" /\ Truthy(content)
            THEN GeminiMessages(Tail(msgs), system_message_content,
                   Append(gemini_messages, GeminiPart("model", content.txt)))
            ELSE GeminiMessages(Tail(msgs), system_message_content, gemini_messages)

ConvertToGeminiFormat(msgs) ==
    IF \E i \in DOMAIN msgs : msgs[i].content = Absent
    THEN [shape |-> "raise", error |-> "KeyError", contents |-> << >>]
    ELSE LET systems == {i \in DOMAIN msgs : msgs[i].role = "system"}
             first == IF systems = {} THEN << >>
                      ELSE msgs[CHOOSE i \in systems : \A j \in systems : i <= j].content.txt
         IN [shape |-> "contents", error |-> "",
             contents |-> GeminiMessages(msgs, first, << >>)]

notcvars == <<rvars, lvars, tvars, evars, kvars, wvars, mvars, newvars>>

\* provider_handler.py:186-187: the backend's JSON is handed to the converter
ConvertInit ==
    /\ graw \in UNION {GeminiRaw(n) : n \in 1..MaxSteps}
    /\ gout = << >>
    /\ gphase = "ready"
    /\ gnext = << >>
    /\ CoreIdle /\ KeysIdle /\ WaitIdle /\ MonitorIdle /\ NewIdle

ConvertResponse ==
    /\ gphase = "ready"
    /\ gout' = ConvertGeminiResponse(graw)
    /\ gphase' = "done"
    /\ UNCHANGED <<graw, gnext, notcvars>>

\* manager_agent.py:770-779, provider_handler.py:159: the loop appends the
\* returned message to its transcript and the next call converts the
\* transcript for the backend.
ConvertTranscript ==
    /\ gphase = "done" /\ gout.shape = "choices"
    /\ gnext' = ConvertToGeminiFormat(<<SystemPrompt, PlanPrompt, gout.message>>)
    /\ gphase' = "next"
    /\ UNCHANGED <<graw, gout, notcvars>>

ConvertNext ==
    \/ ConvertResponse
    \/ ConvertTranscript

SpecConvert == ConvertInit /\ [][ConvertNext]_vars

\* what call_llm can hand the loop at step n
ProviderResponses(n, issued) ==
    OpenRouterResponses(n, issued)
    \cup { r \in { ConvertGeminiResponse(raw) : raw \in GeminiRaw(n) } : r.shape # "raise" }

(***************************************************************************)
(* The critic's verdict.                                                   *)
(***************************************************************************)
Chars(w) ==
    CASE w = "CONFIRM" -> <<"C", "O", "N", "F", "I", "R", "M">>
      [] w = "confirm" -> <<"c", "o", "n", "f", "i", "r", "m">>
      [] w = "Fix" -> <<"F", "i", "x">>
      [] OTHER -> << >>

CriticReviews ==
    { Chars("CONFIRM") \o <<":", " ", "ok">>,
      <<" ">> \o Chars("confirm") \o <<"e", "d", "\n">>,
      Chars("Fix") \o <<" ", "it">>,
      <<"not ">> \o Chars("CONFIRM"),
      << >> }

IsSpace(c) == c \in {" ", "\n", "\t"}
RECURSIVE LStrip(_)
LStrip(s) == IF s # << >> /\ IsSpace(s[1]) THEN LStrip(Tail(s)) ELSE s
RECURSIVE RStrip(_)
RStrip(s) == IF s # << >> /\ IsSpace(s[Len(s)]) THEN RStrip(SubSeq(s, 1, Len(s) - 1)) ELSE s
Strip(s) == RStrip(LStrip(s))
UpperChar(c) ==
    CASE c = "c" -> "C" [] c = "o" -> "O" [] c = "n" -> "N" [] c = "f" -> "F"
      [] c = "i" -> "I" [] c = "r" -> "R" [] c = "m" -> "M" [] c = "e" -> "E"
      [] c = "d" -> "D" [] c = "x" -> "X" [] OTHER -> c
Upper(s) == [i \in 1..Len(s) |-> UpperChar(s[i])]
StartsWith(s, prefix) ==
    Len(s) >= Len(prefix) /\ SubSeq(s, 1, Len(prefix)) = prefix

\* manager_agent.py:820
\*   critic_review and critic_review.strip().upper().startswith("CONFIRM")
ConfirmsNoStrip(review) ==
    review # << >> /\ StartsWith(Upper(review), Chars("CONFIRM"))
Confirms(review) ==
    review # << >> /\ StartsWith(Upper(Strip(review)), Chars("CONFIRM"))

(***************************************************************************)
(* Tool dispatchers: _execute_tool_call of the manager and the sub-agents. *)
(***************************************************************************)
Agents == {"manager", "coder", "analyst", "critic", "researcher"}

FileTools == {"read_file", "write_file", "append_file", "list_files", "create_directory"}
\* the names each dispatcher's if/elif chain knows
ToolTable(agent) ==
    CASE agent = "manager" ->
            FileTools \cup {"web_search", "search_and_extract", "navigate_to",
                            "extract_content", "execute_python_code", "install_package",
                            "run_shell_command", "dispatch_sub_agent", "update_todo",
                            "http_request", "memory_remember", "memory_search"}
      [] agent = "coder" ->
            FileTools \cup {"execute_python_code", "install_package",
                            "run_shell_command", "create_and_run_script"}
      [] agent = "analyst" ->
            FileTools \cup {"execute_python_code", "install_package",
                            "run_shell_command", "create_and_run_script",
                            "read_table", "write_table", "aggregate"}
      [] agent = "critic" ->
            FileTools \cup {"web_search", "scrape_url", "read_url_content"}
      [] OTHER ->
            {"web_search", "search_and_extract", "navigate_to", "extract_content",
             "click_link_and_extract", "http_request"}

\* json.loads(arguments): a JSON object, another JSON value, or a decode error
JsonLoads(arguments) ==
    CASE arguments = "{}" -> "object"
      [] arguments = "[1]" -> "array"
      [] OTHER -> "JSONDecodeError"

ToolArguments == {"{}", "[1]", "{not json"}
\* what the collaborator does when called: returns a JSON-serialisable value,
\* returns one json.dumps rejects, or raises
CollaboratorOutcomes == {"returns", "unserialisable", "raises"}

Returned(txt) == [kind |-> "return", txt |-> txt]
Raised(exc) == [kind |-> "raise", txt |-> <<exc>>]
ErrorExecuting(name, why) == Returned(<<"Error executing ", name, ": ", why>>)
UnknownFunctionRaises(name) == Raised("KeyError")
\* manager_agent.py:434-435  return f"Unknown function: {function_name}"
UnknownFunction(name) == Returned(<<"Unknown function: ", name>>)

\* the body of the try block once function_name and arguments are bound
DispatchInTry(agent, name, arguments, collaborator) ==
    IF name \in ToolTable(agent)
    THEN IF JsonLoads(arguments) # "object" THEN ErrorExecuting(name, "TypeError")
         ELSE IF collaborator = "raises" THEN ErrorExecuting(name, "collaborator error")
         ELSE IF collaborator = "unserialisable"
                 /\ ~(agent = "manager" /\ name \in {"dispatch_sub_agent", "update_todo"})
              THEN ErrorExecuting(name, "TypeError")
         ELSE Returned(<<"result of ", name>>)
    ELSE UnknownFunction(name)

\* manager_agent.py:295-439: json.loads is inside the try block.
\* sub-agents (critic/agent.py:80-118 and the others): json.loads runs
\* before the try block, so its error leaves the dispatcher.
JsonLoadsInsideTry(agent) == agent = "manager"

ExecuteToolCall(agent, name, arguments, collaborator) ==
    IF JsonLoads(arguments) = "JSONDecodeError"
    THEN IF JsonLoadsInsideTry(agent)
         THEN ErrorExecuting(name, "JSONDecodeError")
         ELSE Raised("JSONDecodeError")
    ELSE DispatchInTry(agent, name, arguments, collaborator)

ToolNames == {"web_search", "read_file", "execute_python_code", "no_such_tool"}

ToolsInit ==
    /\ tagent \in Agents
    /\ tcall \in [name : ToolNames, arguments : ToolArguments,
                  collaborator : CollaboratorOutcomes]
    /\ tphase = "ready"
    /\ tout = Returned(<< >>)
    /\ RouterIdle /\ LoopIdle /\ ExecutorIdle /\ OthersIdle

DispatchToolCall ==
    /\ tphase = "ready"
    /\ tout' = ExecuteToolCall(tagent, tcall.name, tcall.arguments, tcall.collaborator)
    /\ tphase' = "done"
    /\ UNCHANGED <<tagent, tcall, rvars, lvars, evars, ovars>>

ToolsNext == DispatchToolCall

SpecTools == ToolsInit /\ [][ToolsNext]_vars

(***************************************************************************)
(* The manager's loop: ManagerAgent.execute_task_iterative.                *)
(***************************************************************************)
NoTurn == [message |-> Msg("assistant", Absent, << >>, NoId), finish |-> "null",
           pending |-> << >>]
NoResult == [tag |-> "pending", txt |-> << >>]
NoTaskResult == [success |-> FALSE, result |-> Absent, error |-> Absent]
Event(what, txt, info) ==
    [what |-> what, step |-> step, txt |-> txt, info |-> info, flag |-> cancelled]

\* manager_agent.py:858-859  self.cancel_flag_file.exists()
IsCancelledNever == FALSE
IsCancelled == cancelled

\* manager_agent.py:750  while step < max_steps
LoopCondition == step < max_steps

\* manager_agent.py:827
\*   messages[-1].get('content', 'Task completed') if messages ... else 'Task completed'
BestEffortResult(msgs) ==
    IF msgs # << >> THEN GetContent(msgs[Len(msgs)], TaskCompleted) ELSE TaskCompleted

\* manager_agent.py:821  return message.get('content', 'Task completed')
ConfirmedResult(message) == GetContent(message, TaskCompleted)

\* collaborators as the loop's tool calls meet them
LoopCollaborators == {"returns"}

LoopInit ==
    /\ max_steps \in 0..MaxSteps
    /\ cancelled \in BOOLEAN
    /\ messages = << >>
    /\ step = 0
    /\ pc = "start"
    /\ cur = NoTurn
    /\ result = NoResult
    /\ log = << >>
    /\ active_status = "running"
    /\ task_result = NoTaskResult
    /\ monitor_status = "none"
    /\ RouterIdle /\ ToolsIdle /\ OthersIdle

\* manager_agent.py:734-741, 601-699: the task is routed to the research
\* workflow, which succeeds and marks the task's monitor completed; its
\* summary is returned and the loop never starts.
ResearchRouted ==
    /\ pc = "start"
    /\ result' = ResearchCompleted
    /\ pc' = "done"
    /\ monitor_status' = "completed"
    /\ log' = Append(log, Event("return_research", << >>, ""))
    /\ UNCHANGED <<messages, step, max_steps, cur, cancelled, active_status,
                   task_result, rvars, tvars, ovars>>

\* manager_agent.py:743-749: not routed, or (701-728) the research workflow
\* failed, marked the monitor failed and returned success False.
LoopStarts ==
    /\ pc = "start"
    /\ messages' = <<SystemPrompt, PlanPrompt>>
    /\ step' = 0
    /\ pc' = "top"
    /\ \E research_failed \in BOOLEAN :
         monitor_status' = IF research_failed THEN "failed" ELSE monitor_status
    /\ UNCHANGED <<max_steps, cur, result, cancelled, log, active_status,
                   task_result, rvars, tvars, ovars>>

\* manager_agent.py:750-754: a turn begins.
TurnBegins ==
    /\ pc = "top" /\ LoopCondition /\ ~IsCancelled
    /\ step' = step + 1
    /\ pc' = "call"
    /\ UNCHANGED <<messages, max_steps, cur, result, cancelled, log, rvars, tvars, evars, ovars>>

\* manager_agent.py:752-753
TurnCancelled ==
    /\ pc = "top" /\ LoopCondition /\ IsCancelled
    /\ step' = step + 1
    /\ result' = TaskCancelled
    /\ pc' = "done"
    /\ log' = Append(log, [what |-> "return_cancelled", step |-> step + 1, txt |-> << >>,
                            info |-> "", flag |-> cancelled])
    /\ UNCHANGED <<messages, max_steps, cur, cancelled, rvars, tvars, evars, ovars>>

\* manager_agent.py:827: the while condition fails.
LoopExhausted ==
    /\ pc = "top" /\ ~LoopCondition
    /\ result' = BestEffortResult(messages)
    /\ pc' = "done"
    /\ log' = Append(log, Event("return_exhausted", << >>, ""))
    /\ UNCHANGED <<messages, step, max_steps, cur, cancelled, rvars, tvars, evars, ovars>>

\* manager_agent.py:760-768, 828-830: call_llm raises (primary and fallback
\* failed); the outer except turns it into the returned string.
ProviderRaises ==
    /\ pc = "call"
    /\ result' = TaskFailed
    /\ pc' = "done"
    /\ log' = log \o <<Event("provider", << >>, ""), Event("return_failed", << >>, "")>>
    /\ UNCHANGED <<messages, step, max_steps, cur, cancelled, rvars, tvars, evars, ovars>>

\* manager_agent.py:760-816: call_llm returns; the message is appended and
\* the turn goes on to its tool calls, to the reflection pass, or ends.
ProviderResponds ==
    /\ pc = "call"
    /\ \E r \in ProviderResponses(step, CallsIssued(messages)) :
         LET message == r.message
             tool_calls == message.tool_calls
         IN IF r.shape = "no_message"
            THEN \* if not message: break
                 /\ result' = BestEffortResult(messages)
                 /\ pc' = "done"
                 /\ log' = log \o <<Event("provider", << >>, ""), Event("return_break", << >>, "")>>
                 /\ UNCHANGED <<messages, cur>>
            ELSE /\ result' = result
                 /\ log' = Append(log, Event("provider", << >>, ""))
                 /\ IF tool_calls # << >>
                    THEN /\ messages' = Append(messages, message)
                         /\ cur' = [message |-> message, finish |-> r.finish,
                                    pending |-> tool_calls]
                         /\ pc' = "tools"
                    ELSE IF r.finish = "stop" \/ Truthy(message.content)
                    THEN /\ messages' = messages \o <<message, ReflectionPrompt>>
                         /\ cur' = [message |-> message, finish |-> r.finish,
                                    pending |-> << >>]
                         /\ pc' = "critic"
                    ELSE /\ messages' = Append(messages, message)
                         /\ cur' = NoTurn
                         /\ pc' = "top"
    /\ UNCHANGED <<step, max_steps, cancelled, rvars, tvars, evars, ovars>>

\* manager_agent.py:786-803: the next tool call of the turn, in order; after
\* the last one the loop continues.
DispatchTool ==
    /\ pc = "tools" /\ cur.pending # << >>
    /\ \E collaborator \in LoopCollaborators :
         LET tool_call == Head(cur.pending)
             tool_result == ExecuteToolCall("manager", tool_call.name,
                                            tool_call.arguments, collaborator)
         IN /\ messages' = Append(messages,
                                  Msg("tool", Str(tool_result.txt), << >>, tool_call.id))
            /\ log' = Append(log, Event("tool", tool_call.id, ""))
    /\ IF Tail(cur.pending) = << >>
       THEN cur' = NoTurn /\ pc' = "top"
       ELSE cur' = [cur EXCEPT !.pending = Tail(@)] /\ pc' = "tools"
    /\ UNCHANGED <<step, max_steps, result, cancelled, rvars, tvars, evars, ovars>>

\* manager_agent.py:817-825: the critic's review decides.
Reflect ==
    /\ pc = "critic"
    /\ \E review \in CriticReviews :
         /\ IF Confirms(review)
            THEN /\ result' = ConfirmedResult(cur.message)
                 /\ pc' = "done"
                 /\ messages' = messages
                 /\ log' = log \o <<Event("critic", review, cur.finish), Event("return_confirmed", << >>, "")>>
            ELSE /\ messages' = Append(messages, CritiquePrompt(review))
                 /\ pc' = "top"
                 /\ result' = result
                 /\ log' = Append(log, Event("critic", review, cur.finish))
    /\ cur' = NoTurn
    /\ UNCHANGED <<step, max_steps, cancelled, rvars, tvars, evars, ovars>>

\* someone creates <workspace>/metadata/cancel.flag while the task runs
CancelRequested ==
    /\ pc \in {"top", "call", "tools", "critic"}
    /\ ~cancelled
    /\ cancelled' = TRUE
    /\ UNCHANGED <<messages, step, max_steps, pc, cur, result, log, rvars, tvars, evars, ovars>>

\* main.py:292-306: execute_task_iterative returned; whatever string it
\* returned is stored as a success and the task is marked completed.
ExecutorStoresResult ==
    /\ pc = "done" /\ task_result = NoTaskResult
    /\ task_result' = [success |-> TRUE, result |-> result, error |-> Absent]
    /\ active_status' = "completed"
    /\ UNCHANGED <<lvars, monitor_status, rvars, tvars, ovars>>

\* main.py:283-289, 308-323: creating the workspace or the manager raised;
\* the except clause stores a failure and marks the task failed.
ExecutorCatches ==
    /\ pc = "start" /\ active_status \in {"running", "cancelled"}
    /\ task_result' = [success |-> FALSE, result |-> Absent,
                       error |-> Str(<<"Task execution failed: ", "setup error">>)]
    /\ active_status' = "failed"
    /\ pc' = "aborted"
    /\ UNCHANGED <<messages, step, max_steps, cur, result, cancelled, log,
                   monitor_status, rvars, tvars, ovars>>

\* main.py:673-702: DELETE /tasks/{task_id} for a running task marks the
\* entry of active_tasks cancelled; that is all it does.
CancelTaskAccepted ==
    /\ pc \in {"start", "top", "call", "tools", "critic"}
    /\ active_status = "running"
    /\ active_status' = "cancelled"
    /\ UNCHANGED <<lvars, task_result, monitor_status, rvars, tvars, ovars>>

LoopNext ==
    \/ ResearchRouted
    \/ LoopStarts
    \/ TurnBegins
    \/ TurnCancelled
    \/ LoopExhausted
    \/ ProviderRaises
    \/ ProviderResponds
    \/ DispatchTool
    \/ Reflect
    \/ CancelRequested
    \/ ExecutorStoresResult
    \/ ExecutorCatches
    \/ CancelTaskAccepted

SpecLoop == LoopInit /\ [][LoopNext]_vars

(***************************************************************************)
(* Credential pool: LLMProviderHandler._get_next_key and                   *)
(* _handle_rate_limit, as the adapters call them.                          *)
(***************************************************************************)
\* largest credential pool
MaxKeys == 3
\* adapter calls (one _get_next_key each) in a run
MaxPicks == 7

notkvars == <<rvars, lvars, tvars, evars, cvars, wvars, mvars, newvars>>

\* provider_handler.py:75, 84: "< 3" for openrouter, "< 2" for gemini
RateLimitThreshold(provider) == IF provider = "openrouter" THEN 3 ELSE 2
EligibleUpToThreshold(provider, hits) == hits <= RateLimitThreshold(provider)
Eligible(provider, hits) == hits < RateLimitThreshold(provider)

\* itertools.cycle over the pool
AfterKeyStuck(key, n) == key
AfterKey(key, n) == (key % n) + 1
\* the i-th key next() yields, counting from 0, when the cycle stands at pos
CycleAt(pos, i, n) == ((pos - 1 + i) % n) + 1

\* provider_handler.py:69-90: at most len(keys) draws looking for an eligible
\* key, then one more draw whatever it is.  The result is the number of
\* draws made; the key returned is the last one drawn.
DrawsOfGetNextKey(provider, pos, n, hits) ==
    LET eligible == {i \in 0..(n - 1) : Eligible(provider, hits[CycleAt(pos, i, n)])}
    IN IF eligible # {}
       THEN (CHOOSE i \in eligible : \A j \in eligible : i <= j) + 1
       ELSE n + 1

\* provider_handler.py:64-66
BackoffCap == 30
Min(a, b) == IF a <= b THEN a ELSE b
BackoffTimeUncapped(hits) == Pow2(hits)
BackoffTime(hits) == Min(Pow2(hits), BackoffCap)

Picks == IF pool = 0 THEN 0
         ELSE LET RECURSIVE Sum(_)
                  Sum(k) == IF k = 0 THEN 0 ELSE pick_count[k] + Sum(k - 1)
              IN Sum(pool)

KeysInit ==
    /\ kprovider \in Providers
    /\ pool \in 1..MaxKeys
    /\ key_pos = 1
    /\ rate_limit_hits = [k \in 1..pool |-> 0]
    /\ api_key = 0
    /\ key_hit = FALSE
    /\ key_ok = FALSE
    /\ pick_count = [k \in 1..pool |-> 0]
    /\ backoffs = [k \in 1..pool |-> << >>]
    /\ CoreIdle /\ ConvertIdle /\ WaitIdle /\ MonitorIdle /\ NewIdle

\* provider_handler.py:100, 156: an adapter call takes its key.
GetNextKey ==
    /\ Picks < MaxPicks
    /\ LET draws == DrawsOfGetNextKey(kprovider, key_pos, pool, rate_limit_hits)
           key == CycleAt(key_pos, draws - 1, pool)
       IN /\ api_key' = key
          /\ key_pos' = AfterKey(key, pool)
          /\ pick_count' = [pick_count EXCEPT ![key] = @ + 1]
    /\ key_hit' = FALSE
    /\ key_ok' = FALSE
    /\ UNCHANGED <<kprovider, pool, rate_limit_hits, backoffs, notkvars>>

\* provider_handler.py:143, 201 calling 54-67: the adapter call got a 429.
HandleRateLimit ==
    /\ api_key # 0 /\ ~key_hit /\ ~key_ok
    /\ rate_limit_hits' = [rate_limit_hits EXCEPT ![api_key] = @ + 1]
    /\ backoffs' = [backoffs EXCEPT
                      ![api_key] = Append(@, BackoffTime(rate_limit_hits[api_key] + 1))]
    /\ key_hit' = TRUE
    /\ UNCHANGED <<kprovider, pool, key_pos, api_key, key_ok, pick_count, notkvars>>

\* provider_handler.py:125-132, 182-190: raise_for_status() passed and the
\* adapter returns the response; nothing is written to rate_limit_hits.
AdapterCallSucceeds ==
    /\ api_key # 0 /\ ~key_hit /\ ~key_ok
    /\ key_ok' = TRUE
    /\ UNCHANGED <<kprovider, pool, key_pos, rate_limit_hits, api_key, key_hit,
                   pick_count, backoffs, notkvars>>

KeysNext ==
    \/ GetNextKey
    \/ HandleRateLimit
    \/ AdapterCallSucceeds

SpecKeys == KeysInit /\ [][KeysNext]_vars

(***************************************************************************)
(* Call spacing: LLMProviderHandler._wait_for_rate_limit, entered by       *)
(* callers that share the one handler instance.  Time is counted in tenths *)
(* of a second.                                                            *)
(***************************************************************************)
\* how far the clock runs beyond its initial value
MaxTicks == 12
\* calls of _wait_for_rate_limit in a run
MaxWaitCalls == 3

notwvars == <<rvars, lvars, tvars, evars, kvars, cvars, mvars, newvars>>

Callers == {"a", "b"}
\* provider_handler.py:32-35: 0.1 s for openrouter, 1.0 s for gemini
MinCallInterval(provider) == IF provider = "openrouter" THEN 1 ELSE 10

WaitCallsBegun ==
    Len(passes) + Cardinality({t \in Callers : wpc[t] # "idle"})

\* provider_handler.py:31, 44: no call yet, so last_call_time.get(provider, 0)
\* is 0 and the clock is far beyond it.
WaitInit ==
    /\ wprovider \in Providers
    /\ wclock = MinCallInterval(wprovider)
    /\ last_call_time = 0
    /\ wpc = [t \in Callers |-> "idle"]
    /\ wnow = [t \in Callers |-> 0]
    /\ wwake = [t \in Callers |-> 0]
    /\ passes = << >>
    /\ CoreIdle /\ KeysIdle /\ ConvertIdle /\ MonitorIdle /\ NewIdle

\* provider_handler.py:43  now = time.time()
WaitEnter(t) ==
    /\ wpc[t] = "idle" /\ WaitCallsBegun < MaxWaitCalls
    /\ wnow' = [wnow EXCEPT ![t] = wclock]
    /\ wpc' = [wpc EXCEPT ![t] = "read"]
    /\ UNCHANGED <<wprovider, wclock, last_call_time, wwake, passes, notwvars>>

\* provider_handler.py:44-50: read last_call, compute wait_time, and start
\* time.sleep(wait_time) when it is positive.
WaitRead(t) ==
    /\ wpc[t] = "read"
    /\ LET time_since_last == wnow[t] - last_call_time
           wait_time == MinCallInterval(wprovider) - time_since_last
       IN IF wait_time > 0
          THEN /\ wwake' = [wwake EXCEPT ![t] = wclock + wait_time]
               /\ wpc' = [wpc EXCEPT ![t] = "sleep"]
          ELSE /\ wwake' = wwake
               /\ wpc' = [wpc EXCEPT ![t] = "stamp"]
    /\ UNCHANGED <<wprovider, wclock, last_call_time, wnow, passes, notwvars>>

\* provider_handler.py:50: time.sleep returns
WaitWake(t) ==
    /\ wpc[t] = "sleep" /\ wclock >= wwake[t]
    /\ wpc' = [wpc EXCEPT ![t] = "stamp"]
    /\ UNCHANGED <<wprovider, wclock, last_call_time, wnow, wwake, passes, notwvars>>

\* provider_handler.py:52  self.last_call_time[provider] = time.time(); the
\* caller goes on to its adapter call.
WaitStamp(t) ==
    /\ wpc[t] = "stamp"
    /\ last_call_time' = wclock
    /\ passes' = Append(passes, [caller |-> t, at |-> wclock])
    /\ wpc' = [wpc EXCEPT ![t] = "idle"]
    /\ wnow' = [wnow EXCEPT ![t] = 0]
    /\ wwake' = [wwake EXCEPT ![t] = 0]
    /\ UNCHANGED <<wprovider, wclock, notwvars>>

\* a tenth of a second passes
WaitTick ==
    /\ wclock < MinCallInterval(wprovider) + MaxTicks
    /\ wclock' = wclock + 1
    /\ UNCHANGED <<wprovider, last_call_time, wpc, wnow, wwake, passes, notwvars>>

WaitNext ==
    \/ \E t \in Callers : WaitEnter(t)
    \/ \E t \in Callers : WaitRead(t)
    \/ \E t \in Callers : WaitWake(t)
    \/ \E t \in Callers : WaitStamp(t)
    \/ WaitTick

SpecWait == WaitInit /\ [][WaitNext]_vars

(***************************************************************************)
(* TaskMonitor (tools/task_monitor.py).  Scores are counted in tenths      *)
(* (0.5 is 5), time in seconds.                                            *)
(***************************************************************************)
\* activities logged in a run
MaxActivities == 3
\* idle periods (six minutes each) in a run
MaxIdlePeriods == 1

notmvars == <<rvars, lvars, tvars, evars, kvars, cvars, wvars, newvars>>

\* strings are sequences of characters
Terms == { <<"a", "i">>, <<"c", "a", "t", "s">> }
Queries == { << >>, <<"A", "I">>, <<"r", "a", "i", "n">>, <<"c", "a", "t", "s">> }
Urls == { <<"x", ".", "a", "i">>, <<"d", "o", "g", ".", "x">> }

LowerChar(c) == CASE c = "A" -> "a" [] c = "I" -> "i" [] OTHER -> c
Lower(str) == [i \in DOMAIN str |-> LowerChar(str[i])]
\* Python's "term in text" on strings
IsSubstring(term, text) ==
    \E i \in 0..(Len(text) - Len(term)) : SubSeq(text, i + 1, i + Len(term)) = term

\* task_monitor.py:244-262: the contribution of the activity's type
TypeScore(type, detail, terms) ==
    CASE type = "search" ->
            (IF ~\E term \in terms : IsSubstring(Lower(term), Lower(detail))
             THEN 5 ELSE 0)
            + (IF Lower(detail) = << >> THEN 8 ELSE 0)
      [] type = "navigation" ->
            (IF ~\E term \in terms : IsSubstring(Lower(term), Lower(detail))
             THEN 3 ELSE 0)
      [] type = "error" -> 4
      [] OTHER -> 0

\* task_monitor.py:264-268: the inactivity contribution and the clamp;
\* elapsed is time.time() - self.last_activity_time as _check_deviation
\* evaluates it
CheckDeviation(type, detail, terms, elapsed) ==
    Min(TypeScore(type, detail, terms) + (IF elapsed > 300 THEN 6 ELSE 0), 10)

\* task_monitor.py:366-380
ShouldRedirectTask ==
    \/ deviation_count >= 3
    \/ search_queries_executed = 0
    \/ content_extracted = 0

\* task_monitor.py:382-392: the search terms and the task text are whatever
\* the task description gives; only the branch taken matters here
GetRedirectInstructionsContentFirst ==
    IF content_extracted = 0
    THEN <<"Extract content from search results about: ", "original_task">>
    ELSE IF search_queries_executed = 0
    THEN <<"Perform web search for: ", "search_terms">>
    ELSE <<"Refocus on the main task: ", "original_task">>
GetRedirectInstructions ==
    IF search_queries_executed = 0
    THEN <<"Perform web search for: ", "search_terms">>
    ELSE IF content_extracted = 0
    THEN <<"Extract content from search results about: ", "original_task">>
    ELSE <<"Refocus on the main task: ", "original_task">>

\* get_task_monitor creates the monitor; set_original_task may have set the
\* expected terms.
MonitorInit ==
    /\ current_status = "pending"
    /\ deviation_count = 0
    /\ mclock = 0
    /\ last_activity_time = 0
    /\ expected_search_terms \in (SUBSET Terms)
    /\ search_queries_executed = 0
    /\ content_extracted = 0
    /\ activities = << >>
    /\ CoreIdle /\ KeysIdle /\ ConvertIdle /\ WaitIdle /\ NewIdle

\* task_monitor.py:210-240 with 272-287: log_activity.  last_activity_time
\* is set to the current time before _check_deviation reads it.
LogActivity(via, type, detail, status) ==
    LET stamped == mclock
        score == CheckDeviation(type, detail, expected_search_terms, mclock - stamped)
    IN /\ Len(activities) < MaxActivities
       /\ activities' = Append(activities,
                               [via |-> via, type |-> type, detail |-> detail,
                                idle |-> mclock - last_activity_time,
                                deviation_score |-> score])
       /\ last_activity_time' = stamped
       /\ IF score > 7
          THEN /\ deviation_count' = deviation_count + 1
               /\ current_status' = "deviated"
          ELSE /\ deviation_count' = deviation_count
               /\ current_status' = IF status = "pending" THEN "in_progress" ELSE status

\* task_monitor.py:321-334
LogSearchQuery ==
    /\ \E query \in Queries :
         LogActivity("log_search_query", "search", query, current_status)
    /\ search_queries_executed' = search_queries_executed + 1
    /\ UNCHANGED <<mclock, expected_search_terms, content_extracted, notmvars>>

\* task_monitor.py:336-349
LogPageVisit ==
    /\ \E url \in Urls :
         LogActivity("log_page_visit", "navigation", url, current_status)
    /\ UNCHANGED <<mclock, expected_search_terms, search_queries_executed,
                   content_extracted, notmvars>>

\* task_monitor.py:351-364
LogContentExtraction ==
    /\ \E url \in Urls :
         LogActivity("log_content_extraction", "extraction", url, current_status)
    /\ content_extracted' = content_extracted + 1
    /\ UNCHANGED <<mclock, expected_search_terms, search_queries_executed, notmvars>>

\* task_monitor.py:446-451: log_task_activity with an error activity
LogError ==
    /\ LogActivity("log_activity", "error", << >>, current_status)
    /\ UNCHANGED <<mclock, expected_search_terms, search_queries_executed,
                   content_extracted, notmvars>>

\* task_monitor.py:421-424
MarkTaskCompleted ==
    /\ current_status # "completed"
    /\ current_status' = "completed"
    /\ UNCHANGED <<deviation_count, last_activity_time, mclock, expected_search_terms,
                   search_queries_executed, content_extracted, activities, notmvars>>

\* task_monitor.py:426-435: the status is set, then the error is logged
MarkTaskFailed ==
    /\ LogActivity("mark_task_failed", "error", << >>, "failed")
    /\ UNCHANGED <<mclock, expected_search_terms, search_queries_executed,
                   content_extracted, notmvars>>

\* six minutes pass without any activity
MonitorIdles ==
    /\ mclock < 360 * MaxIdlePeriods
    /\ mclock' = mclock + 360
    /\ UNCHANGED <<current_status, deviation_count, last_activity_time,
                   expected_search_terms, search_queries_executed, content_extracted,
                   activities, notmvars>>

MonitorNext ==
    \/ LogSearchQuery
    \/ LogPageVisit
    \/ LogContentExtraction
    \/ LogError
    \/ MarkTaskCompleted
    \/ MarkTaskFailed
    \/ MonitorIdles

SpecMonitor == MonitorInit /\ [][MonitorNext]_vars

(***************************************************************************)
(* Event bus: tools/event_bus.py, one task id, one subscriber.  Coroutines *)
(* of one event loop run from one await to the next without interleaving.  *)
(***************************************************************************)
\* events published in a run
MaxEvents == 4

EventPayloads == {"llm_delta", "tool_start", "tool_end"}

\* event_bus.py:14-17
GetQueue(queue) == IF queue.exists THEN queue ELSE [exists |-> TRUE, items |-> << >>]
\* asyncio.Queue.put on an unbounded queue
QueuePutFront(queue, event) == [queue EXCEPT !.items = <<event>> \o @]
QueuePut(queue, event) == [queue EXCEPT !.items = Append(@, event)]

BusInit ==
    /\ bus_queue = NoQueue
    /\ published = << >>
    /\ yielded = << >>
    /\ subscriber = "none"
    /\ OldIdle /\ BusAlone

\* event_bus.py:19-20
Publish ==
    /\ Len(published) < MaxEvents
    /\ \E event \in EventPayloads :
         /\ bus_queue' = QueuePut(GetQueue(bus_queue), event)
         /\ published' = Append(published,
                                [event |-> event, subscribed |-> subscriber = "waiting"])
    /\ UNCHANGED <<yielded, subscriber, notbvars>>

\* event_bus.py:22-25: the generator is started and reaches queue.get()
Subscribe ==
    /\ subscriber = "none"
    /\ bus_queue' = GetQueue(bus_queue)
    /\ subscriber' = "waiting"
    /\ UNCHANGED <<published, yielded, notbvars>>

\* event_bus.py:25-26: queue.get() returns the oldest event; it is yielded
SubscriberReceives ==
    /\ subscriber = "waiting"
    /\ bus_queue.items # << >>
    /\ yielded' = Append(yielded, Head(bus_queue.items))
    /\ bus_queue' = [bus_queue EXCEPT !.items = Tail(@)]
    /\ UNCHANGED <<published, subscriber, notbvars>>

BusNext ==
    \/ Publish
    \/ Subscribe
    \/ SubscriberReceives

SpecBus == BusInit /\ [][BusNext]_vars
\* the event loop runs a coroutine that is ready
FairSpecBus == SpecBus /\ WF_vars(Subscribe) /\ WF_vars(SubscriberReceives)

(***************************************************************************)
(* Process sandbox: tools/process_sandbox.run_with_limits.                 *)
(***************************************************************************)
\* largest timeout, in seconds
MaxTimeout == 3
\* longest command, in seconds
MaxDuration == 5

NoReturn == [kind |-> "pending", returncode |-> 0, stdout |-> << >>, stderr |-> << >>]
\* process_sandbox.py:48
Completed(returncode) ==
    [kind |-> "CompletedProcess", returncode |-> returncode,
     stdout |-> <<"outs">>, stderr |-> <<"errs">>]
\* process_sandbox.py:51
TimedOutAsSuccess(timeout) ==
    [kind |-> "CompletedProcess", returncode |-> 0, stdout |-> << >>,
     stderr |-> <<"Timed out after ", timeout, "s">>]
TimedOut(timeout) ==
    [kind |-> "CompletedProcess", returncode |-> -1, stdout |-> << >>,
     stderr |-> <<"Timed out after ", timeout, "s">>]

\* process_sandbox.py:44-45: the child is started
SandboxInit ==
    /\ stimeout \in 1..MaxTimeout
    /\ sduration \in 0..MaxDuration
    /\ sexit \in {0, 1}
    /\ sproc = "running"
    /\ sclock = 0
    /\ sexited_at = -1
    /\ sret = NoReturn
    /\ OldIdle /\ SandboxAlone

\* a second passes while communicate waits
SandboxTick ==
    /\ sproc = "running" /\ sclock < stimeout /\ sclock < sduration
    /\ sclock' = sclock + 1
    /\ UNCHANGED <<sproc, stimeout, sduration, sexit, sexited_at, sret, notsvars>>

\* the command ends by itself
ProcessExits ==
    /\ sproc = "running" /\ sclock = sduration
    /\ sproc' = "exited"
    /\ sexited_at' = sclock
    /\ UNCHANGED <<sclock, stimeout, sduration, sexit, sret, notsvars>>

\* process_sandbox.py:47-48: communicate returns the outputs
CommunicateReturns ==
    /\ sproc = "exited" /\ sret = NoReturn
    /\ sret' = Completed(sexit)
    /\ UNCHANGED <<sproc, sclock, stimeout, sduration, sexit, sexited_at, notsvars>>

\* process_sandbox.py:49-51 with 14-21: communicate raises TimeoutExpired;
\* the process group is killed and the timeout result returned
TimeoutExpires ==
    /\ sproc = "running" /\ sclock = stimeout /\ sret = NoReturn
    /\ sproc' = "killed"
    /\ sret' = TimedOut(stimeout)
    /\ UNCHANGED <<sclock, stimeout, sduration, sexit, sexited_at, notsvars>>

SandboxNext ==
    \/ SandboxTick
    \/ ProcessExits
    \/ CommunicateReturns
    \/ TimeoutExpires

SpecSandbox == SandboxInit /\ [][SandboxNext]_vars

(***************************************************************************)
(* One research phase: ManagerAgent._execute_research_phase.               *)
(***************************************************************************)
\* most queries of a phase
MaxQueries == 5

\* manager_agent.py:1012  sem = asyncio.Semaphore(3)
SemaphoreSize == 3
\* asyncio.Semaphore: acquire goes through while the value is positive
CanAcquireAlways(value) == TRUE
CanAcquire(value) == value > 0

Running == {q \in 1..search_queries : qstate[q] = "running"}

\* manager_agent.py:1102-1103: for batch in batches: phase_results.extend(batch)
RECURSIVE Concatenate(_, _)
Concatenate(bs, n) == IF n = 0 THEN << >> ELSE Concatenate(bs, n - 1) \o bs[n]

\* manager_agent.py:1004-1101: the tasks are created and gathered
PhaseInit ==
    /\ search_queries \in 1..MaxQueries
    /\ qstate = [q \in 1..search_queries |-> "pending"]
    /\ sem = SemaphoreSize
    /\ batches = [q \in 1..search_queries |-> << >>]
    /\ peak = 0
    /\ phase_results = << >>
    /\ phase_pc = "gather"
    /\ OldIdle /\ PhaseAlone

\* manager_agent.py:1015  async with sem: entered
QueryAcquires(q) ==
    /\ qstate[q] = "pending" /\ CanAcquire(sem)
    /\ sem' = sem - 1
    /\ qstate' = [qstate EXCEPT ![q] = "running"]
    /\ peak' = IF Cardinality(Running) + 1 > peak THEN Cardinality(Running) + 1 ELSE peak
    /\ UNCHANGED <<search_queries, batches, phase_results, phase_pc, notpvars>>

\* manager_agent.py:1016-1097: the query returns its results, or [] when it
\* was cancelled or failed; the semaphore is released
QueryFinishes(q) ==
    /\ qstate[q] = "running"
    /\ \E results \in { << >>, <<[query |-> q]>> } :
         batches' = [batches EXCEPT ![q] = results]
    /\ qstate' = [qstate EXCEPT ![q] = "done"]
    /\ sem' = sem + 1
    /\ UNCHANGED <<search_queries, peak, phase_results, phase_pc, notpvars>>

\* manager_agent.py:1101-1105: gather returns when every task is done
PhaseReturns ==
    /\ phase_pc = "gather"
    /\ \A q \in 1..search_queries : qstate[q] = "done"
    /\ phase_results' = Concatenate(batches, search_queries)
    /\ phase_pc' = "returned"
    /\ UNCHANGED <<search_queries, qstate, sem, batches, peak, notpvars>>

PhaseNext ==
    \/ \E q \in 1..search_queries : QueryAcquires(q)
    \/ \E q \in 1..search_queries : QueryFinishes(q)
    \/ PhaseReturns

SpecPhase == PhaseInit /\ [][PhaseNext]_vars

(***************************************************************************)
(* RateLimitManager.execute_with_backoff (tools/rate_limit_manager.py),    *)
(* one call on a fresh manager.  Time is in whole seconds.                 *)
(***************************************************************************)
\* largest max_retries a provider is configured with
MaxConfiguredRetries == 3

\* rate_limit_manager.py:128  "(now - last_failure).seconds < 30"
SkipWindow == 30
\* rate_limit_manager.py:30  max_delay
MaxDelay == 60
\* rate_limit_manager.py:29 (the default) and a provider configured to wait
\* as long as the skip window
BaseDelays == {1, 30}

\* rate_limit_manager.py:118-131
ShouldSkipProvider(consecutive, last, now, retries) ==
    \/ consecutive >= retries * 2
    \/ last # -1 /\ now - last < SkipWindow

\* rate_limit_manager.py:72, 87-89: exponential backoff, then jitter of at
\* most a tenth of the delay either way
CalculateDelay(base, n) ==
    LET delay == Min(base * Pow2(n), MaxDelay)
    IN {delay - (delay \div 10), delay, delay + (delay \div 10)}

BackoffInit ==
    /\ xmax_retries \in 1..MaxConfiguredRetries
    /\ xbase_delay \in BaseDelays
    /\ attempt = 0
    /\ xpc = "try"
    /\ xclock = 0
    /\ last_failure = -1
    /\ consecutive_failures = 0
    /\ invocations = 0
    /\ func_failures = 0
    /\ xlast_exception = "none"
    /\ OldIdle /\ BackoffAlone

\* rate_limit_manager.py:179-201: the except clause.  record_failure, then
\* either the sleep before the next attempt or, after the last attempt, the
\* raise of last_exception (line 204).
AttemptFailed(exception) ==
    /\ xlast_exception' = exception
    /\ last_failure' = xclock
    /\ consecutive_failures' = consecutive_failures + 1
    /\ IF attempt < xmax_retries
       THEN /\ \E delay \in CalculateDelay(xbase_delay, attempt) : xclock' = xclock + delay
            /\ attempt' = attempt + 1
            /\ xpc' = "try"
       ELSE /\ xpc' = "raised"
            /\ UNCHANGED <<xclock, attempt>>

\* rate_limit_manager.py:168-170: the provider is skipped; func is not invoked
AttemptSkipped ==
    /\ xpc = "try"
    /\ ShouldSkipProvider(consecutive_failures, last_failure, xclock, xmax_retries)
    /\ AttemptFailed("unavailable")
    /\ UNCHANGED <<xmax_retries, xbase_delay, invocations, func_failures, notxvars>>

\* rate_limit_manager.py:173-177: func returns; record_success
FuncSucceeds ==
    /\ xpc = "try"
    /\ ~ShouldSkipProvider(consecutive_failures, last_failure, xclock, xmax_retries)
    /\ invocations' = invocations + 1
    /\ consecutive_failures' = 0
    /\ xpc' = "returned"
    /\ UNCHANGED <<xmax_retries, xbase_delay, attempt, xclock, last_failure,
                   func_failures, xlast_exception, notxvars>>

\* rate_limit_manager.py:173, 179-201: func raises
FuncFails ==
    /\ xpc = "try"
    /\ ~ShouldSkipProvider(consecutive_failures, last_failure, xclock, xmax_retries)
    /\ invocations' = invocations + 1
    /\ func_failures' = func_failures + 1
    /\ AttemptFailed("func")
    /\ UNCHANGED <<xmax_retries, xbase_delay, notxvars>>

BackoffNext ==
    \/ AttemptSkipped
    \/ FuncSucceeds
    \/ FuncFails

SpecBackoff == BackoffInit /\ [][BackoffNext]_vars

(***************************************************************************)
(* The module-level file_manager and code_interpreter, as two concurrently *)
(* running tasks use them.                                                 *)
(***************************************************************************)
\* most tool calls in a run
MaxToolCalls == 3

TaskIds == {"t1", "t2"}
\* main.py: each task gets a workspace directory of its own
WorkspaceOf(task) == IF task = "t1" THEN "workspace/t1" ELSE "workspace/t2"

\* file_manager.py:846, code_interpreter.py:437: the singletons are created
\* on import with the default directory
WorkspaceInit ==
    /\ managers = {}
    /\ fm_workspace_path = "workspace"
    /\ ci_workspace_root = "workspace"
    /\ tool_log = << >>
    /\ OldIdle /\ WorkspaceAlone

\* manager_agent.py:59-66 calling file_manager.py:34-37 and
\* code_interpreter.py:27-32
ConstructManager(task) ==
    /\ task \notin managers
    /\ managers' = managers \cup {task}
    /\ fm_workspace_path' = WorkspaceOf(task)
    /\ ci_workspace_root' = WorkspaceOf(task)
    /\ UNCHANGED <<tool_log, notyvars>>

\* manager_agent.py:317-335: a file tool call of the task's loop; the path
\* is resolved against file_manager.workspace_path (file_manager.py:52-63)
FileToolCall(task) ==
    /\ task \in managers /\ Len(tool_log) < MaxToolCalls
    /\ tool_log' = Append(tool_log, [task |-> task, tool |-> "file_manager",
                                      dir |-> fm_workspace_path])
    /\ UNCHANGED <<managers, fm_workspace_path, ci_workspace_root, notyvars>>

\* manager_agent.py:337-347: a code-execution tool call of the task's loop;
\* the code runs in code_interpreter.workspace_root
CodeToolCall(task) ==
    /\ task \in managers /\ Len(tool_log) < MaxToolCalls
    /\ tool_log' = Append(tool_log, [task |-> task, tool |-> "code_interpreter",
                                      dir |-> ci_workspace_root])
    /\ UNCHANGED <<managers, fm_workspace_path, ci_workspace_root, notyvars>>

WorkspaceNext ==
    \/ \E task \in TaskIds : ConstructManager(task)
    \/ \E task \in TaskIds : FileToolCall(task)
    \/ \E task \in TaskIds : CodeToolCall(task)

SpecWorkspace == WorkspaceInit /\ [][WorkspaceNext]_vars

(***************************************************************************)
(* CriticAgent.execute_task (agents/sub_agents/critic/agent.py), one       *)
(* review.  Of the transcript only its last message matters to the code.   *)
(***************************************************************************)
\* critic/agent.py:163  max_iterations = 12
MaxIterations == 12
\* critic/agent.py:196  len(message.get('content', '')) > 400
SubstantialLength == 400

\* a reply's content: its first characters and its length
CriticContents ==
    { [txt |-> t, len |-> n] :
        t \in {Chars("CONFIRM") \o <<":", " ", "ok">>, Chars("Fix") \o <<" ", "it">>},
        n \in {10, SubstantialLength, SubstantialLength + 1} }
CriticReplies ==
    { [content |-> c, finish_reason |-> f, tool_calls |-> t] :
        c \in CriticContents, f \in {"stop", "length"}, t \in BOOLEAN }
NoReply == [content |-> [txt |-> << >>, len |-> 0], finish_reason |-> "none",
            tool_calls |-> FALSE]

CriticMessage(role, content) == [role |-> role, content |-> content]
\* critic/agent.py:200-203, 207-210: the user messages the loop adds
AskForMore == CriticMessage("user", [txt |-> <<"Please provide a more comprehensive ...">>, len |-> 157])
ErrorOccurred == CriticMessage("user", [txt |-> <<"An error occurred: ...">>, len |-> 100])
\* critic/agent.py:222
EvaluationCompleted == <<"Critical evaluation completed. Please check ...">>

\* critic/agent.py:196
IsSubstantial(content) == content.len > SubstantialLength

\* critic/agent.py:218-222
FinalEvaluation(last) ==
    IF last.role = "assistant" THEN last.content.txt ELSE EvaluationCompleted

CriticInit ==
    /\ iteration = 0
    /\ last_message = CriticMessage("user", [txt |-> <<"Critical Evaluation Task: ...">>, len |-> 1200])
    /\ reply = NoReply
    /\ critic_pc = "loop"
    /\ critic_review = << >>
    /\ OldIdle /\ CriticAlone

\* critic/agent.py:166-203: one iteration in which the model replied
CriticReplied ==
    /\ critic_pc = "loop" /\ iteration < MaxIterations
    /\ iteration' = iteration + 1
    /\ \E r \in CriticReplies :
         LET appended == IF r.tool_calls
                         THEN CriticMessage("tool", [txt |-> <<"{...}">>, len |-> 5])
                         ELSE CriticMessage("assistant", r.content)
         IN /\ reply' = r
            /\ IF r.finish_reason = "stop" /\ ~r.tool_calls
               THEN IF IsSubstantial(r.content)
                    THEN /\ last_message' = appended
                         /\ critic_pc' = "returned"
                         /\ critic_review' = FinalEvaluation(appended)
                    ELSE /\ last_message' = AskForMore
                         /\ UNCHANGED <<critic_pc, critic_review>>
               ELSE /\ last_message' = appended
                    /\ UNCHANGED <<critic_pc, critic_review>>
    /\ UNCHANGED notavars

\* critic/agent.py:175-176: the response has no choices; break
CriticNoChoices ==
    /\ critic_pc = "loop" /\ iteration < MaxIterations
    /\ iteration' = iteration + 1
    /\ critic_pc' = "returned"
    /\ critic_review' = FinalEvaluation(last_message)
    /\ UNCHANGED <<last_message, reply, notavars>>

\* critic/agent.py:205-210: the call raised
CriticCallRaised ==
    /\ critic_pc = "loop" /\ iteration < MaxIterations
    /\ iteration' = iteration + 1
    /\ last_message' = ErrorOccurred
    /\ UNCHANGED <<reply, critic_pc, critic_review, notavars>>

\* critic/agent.py:165, 218-222: the iterations are used up
CriticExhausted ==
    /\ critic_pc = "loop" /\ iteration = MaxIterations
    /\ critic_pc' = "returned"
    /\ critic_review' = FinalEvaluation(last_message)
    /\ UNCHANGED <<iteration, last_message, reply, notavars>>

CriticNext ==
    \/ CriticReplied
    \/ CriticNoChoices
    \/ CriticCallRaised
    \/ CriticExhausted

SpecCritic == CriticInit /\ [][CriticNext]_vars

(***************************************************************************)
(* Claims about the provider router.                                       *)
(***************************************************************************)
Primary == rarg.provider
RouterDone == rret.kind \in {"ok", "exc"}
CallsTo(p) == {i \in DOMAIN rcalls : rcalls[i].provider = p}
CallsAtDepth(d) == {i \in DOMAIN rcalls : rcalls[i].depth = d}
SetMax(S) == CHOOSE x \in S : \A y \in S : y <= x
ExceptionOfCall(i) == AdapterException(rcalls[i].outcome, rcalls[i].provider, i)

\* C2: when every adapter invocation on both providers fails, the fallback
\* provider is attempted exactly once, at recursion depth 1: at most
\* max_retries + 1 adapter invocations in all, and the fallback call never
\* falls back again to the primary provider.
C2_FallbackDepthOne ==
    rret.kind = "exc" =>
        /\ Len(rcalls) <= rarg.max_retries + 1
        /\ Cardinality(CallsTo(FallbackProvider(Primary))) = 1
        /\ \A i \in DOMAIN rcalls : rcalls[i].depth <= 2

\* C3: when the primary provider fails all its attempts and the fallback
\* fails too, the exception call_llm raises is the one raised by the last
\* adapter invocation of the top-level call's own retry loop, an exception
\* of the primary provider and not what the fallback call raised.
C3_RaisesPrimaryException ==
    rret.kind = "exc" =>
        /\ CallsAtDepth(1) # {}
        /\ rret.exc = ExceptionOfCall(SetMax(CallsAtDepth(1)))
        /\ rret.exc.by = Primary

\* a run in which the primary failed several times with different errors,
\* the fallback failed as well, and call_llm has raised
C3_Witness ==
    /\ rret.kind = "exc"
    /\ Cardinality(CallsAtDepth(1)) >= 2
    /\ CallsAtDepth(2) # {}
    /\ rcalls[1].outcome # rcalls[SetMax(CallsAtDepth(1))].outcome

\* C4: with the primary adapter raising HTTP 429 on every invocation and the
\* other provider succeeding, call_llm(primary, max_retries=3) invokes the
\* primary adapter exactly once, then the fallback adapter exactly once, and
\* returns the fallback's result.
C4_RateLimitShortCircuit ==
    ( /\ RouterDone
      /\ rarg.max_retries = 3
      /\ \A i \in CallsTo(Primary) : rcalls[i].outcome = "http429"
      /\ \A i \in CallsTo(FallbackProvider(Primary)) : rcalls[i].outcome = "ok" )
    =>
    ( /\ Cardinality(CallsTo(Primary)) = 1
      /\ Cardinality(CallsTo(FallbackProvider(Primary))) = 1
      /\ rret.kind = "ok" /\ rret.by = FallbackProvider(Primary) )

\* C5: with only non-rate-limit failures, call_llm invokes the primary
\* adapter at most max_retries times, sleeps 2^attempt seconds between
\* consecutive attempts, returns the first success without invoking the
\* fallback provider, and invokes the fallback only after max_retries
\* primary failures.
C5_RetryThenFallback ==
    ( /\ RouterDone
      /\ \A i \in DOMAIN rcalls : rcalls[i].outcome # "http429" )
    =>
    ( /\ Cardinality(CallsTo(Primary)) <= rarg.max_retries
      /\ \A i \in CallsTo(Primary) :
            (i + 1 \in CallsTo(Primary)) =>
                \E j \in DOMAIN rsleeps :
                    rsleeps[j].after = i /\ rsleeps[j].secs = Pow2(i - 1)
      /\ (rret.kind = "ok" /\ rret.by = Primary) =>
            CallsTo(FallbackProvider(Primary)) = {}
      /\ CallsTo(FallbackProvider(Primary)) # {} =>
            \A i \in 1..rarg.max_retries :
                rcalls[i].provider = Primary /\ rcalls[i].outcome # "ok" )

\* the part of C5 that concerns the top-level call's own retry loop
RetryLoopOfTopLevelCall ==
    ( \A i \in DOMAIN rcalls : rcalls[i].outcome # "http429" )
    =>
    ( /\ Cardinality(CallsAtDepth(1)) <= rarg.max_retries
      /\ \A i \in CallsAtDepth(1) :
            (i + 1 \in CallsAtDepth(1)) =>
                \E j \in DOMAIN rsleeps :
                    rsleeps[j].after = i /\ rsleeps[j].secs = Pow2(i - 1)
      /\ CallsAtDepth(2) # {} =>
            \A i \in 1..rarg.max_retries :
                rcalls[i].depth = 1 /\ rcalls[i].outcome # "ok" )

(***************************************************************************)
(* Claims about the manager's loop.                                        *)
(***************************************************************************)
EventsOf(what) == {i \in DOMAIN log : log[i].what = what}
ProviderCalls == Cardinality(EventsOf("provider"))
Returned_(how) == pc = "done" /\ log # << >> /\ log[Len(log)].what = how
AssistantMessages == {i \in DOMAIN messages : messages[i].role = "assistant"}

\* the loop never makes more provider calls than max_steps
TurnBound == ProviderCalls <= max_steps /\ step <= max_steps

\* C1: for every max_steps = N and every model behaviour the loop makes at
\* most N reasoning turns (provider calls) and then returns a string.
C1_AtMostNTurnsThenString ==
    /\ ProviderCalls <= max_steps
    /\ pc = "done" => IsString(result)

\* C6: every tool message of the transcript has exactly one preceding
\* assistant message whose tool_calls holds its tool_call_id, and the ids of
\* one assistant message are pairwise distinct.
C6_TranscriptCorrelation ==
    /\ \A i \in DOMAIN messages :
          messages[i].role = "tool" =>
              Cardinality({j \in 1..(i - 1) :
                              /\ messages[j].role = "assistant"
                              /\ \E k \in DOMAIN messages[j].tool_calls :
                                    messages[j].tool_calls[k].id = messages[i].tool_call_id})
                  = 1
    /\ \A j \in AssistantMessages :
          \A k1, k2 \in DOMAIN messages[j].tool_calls :
              messages[j].tool_calls[k1].id = messages[j].tool_calls[k2].id => k1 = k2

\* the first non-blank characters, in upper case, are C O N F I R M
StartsWithConfirmAfterBlanks(review) ==
    \E k \in 0..Len(review) :
        /\ \A i \in 1..k : IsSpace(review[i])
        /\ Len(review) >= k + 7
        /\ \A i \in 1..7 : UpperChar(review[k + i]) = Chars("CONFIRM")[i]

CritiqueFedBack(review) ==
    \E m \in DOMAIN messages : messages[m] = CritiquePrompt(review)

\* C7 as claimed: in a turn without tool calls and with finish_reason stop,
\* a review starting with CONFIRM (any case, leading blanks ignored) ends
\* the loop at that turn with that turn's assistant content; any other
\* review is fed back as a user message and the loop makes at least one
\* more reasoning turn.
C7_ReflectionGateAsClaimed ==
    \A i \in EventsOf("critic") :
        log[i].info = "stop" =>
            IF StartsWithConfirmAfterBlanks(log[i].txt)
            THEN /\ i + 1 \in DOMAIN log /\ log[i + 1].what = "return_confirmed"
                 /\ result = GetContent(messages[Len(messages) - 1], TaskCompleted)
            ELSE /\ CritiqueFedBack(log[i].txt)
                 /\ pc = "done" =>
                       \E j \in EventsOf("provider") : j > i /\ log[j].step = log[i].step + 1

\* C7 amended: a review that starts with CONFIRM (any case, leading blanks
\* ignored) ends the loop at that turn with that turn's assistant content
\* ('Task completed' when the message has no content key); any other review
\* is fed back as a user message and the loop goes on: it makes one more
\* reasoning turn unless max_steps is reached or the cancellation signal is
\* set at the top of the next turn, in which cases it returns without
\* another turn.
C7_ReflectionGate ==
    \A i \in EventsOf("critic") :
        log[i].info = "stop" =>
            IF StartsWithConfirmAfterBlanks(log[i].txt)
            THEN /\ i + 1 \in DOMAIN log /\ log[i + 1].what = "return_confirmed"
                 /\ log[i + 1].step = log[i].step
                 /\ pc = "done"
                 /\ messages[Len(messages) - 1].role = "assistant"
                 /\ result = GetContent(messages[Len(messages) - 1], TaskCompleted)
            ELSE /\ CritiqueFedBack(log[i].txt)
                 /\ pc = "done" =>
                       \/ \E j \in EventsOf("provider") :
                             j > i /\ log[j].step = log[i].step + 1
                       \/ log[i].step = max_steps /\ Returned_("return_exhausted")
                       \/ /\ Returned_("return_cancelled")
                          /\ log[Len(log)].step = log[i].step + 1

\* both outcomes of the gate have happened: a blank-led lower-case confirm
\* ended a run, after an earlier review was rejected and a further turn made
C7_Witness ==
    /\ Returned_("return_confirmed")
    /\ \E i, j \in EventsOf("critic") :
          /\ i < j
          /\ log[i].info = "stop" /\ log[j].info = "stop"
          /\ ~StartsWithConfirmAfterBlanks(log[i].txt)
          /\ StartsWithConfirmAfterBlanks(log[j].txt)
          /\ IsSpace(log[j].txt[1])

\* C8: when max_steps is reached without a confirmed completion, the loop
\* returns the content of the transcript's last assistant message (the
\* default text when that message has no content key), not a tool result and
\* not a user message.
C8_BestEffortIsLastAssistant ==
    (Returned_("return_exhausted") /\ step >= 1) =>
        /\ AssistantMessages # {}
        /\ result = GetContent(messages[SetMax(AssistantMessages)], TaskCompleted)

SideEffects(l) == {i \in DOMAIN l : l[i].what \in {"provider", "tool", "critic"}}

\* C9: a turn that begins with the cancellation signal set returns
\* "Task cancelled" and starts no provider call, tool dispatch or critic
\* dispatch, then or later; a signal set during a turn does not interrupt
\* that turn: "Task cancelled" is only ever returned from the top of a turn.
C9_CooperativeCancellation ==
    /\ [][ (pc = "top" /\ step < max_steps /\ cancelled /\ lvars' # lvars) =>
              /\ pc' = "done"
              /\ result' = TaskCancelled
              /\ SideEffects(log') = SideEffects(log) ]_vars
    /\ [][ pc = "done" => (log' = log /\ result' = result /\ pc' = "done") ]_vars
    /\ [][ (result' = TaskCancelled /\ result # TaskCancelled) => pc = "top" ]_vars

\* the signal was set in the middle of a turn, the turn's tool call or
\* critic was dispatched all the same, and the next turn returned
\* "Task cancelled"
C9_Witness ==
    /\ Returned_("return_cancelled")
    /\ result = TaskCancelled
    /\ \E i, j \in DOMAIN log :
          /\ i < j /\ log[i].step = log[j].step
          /\ log[i].what = "provider" /\ ~log[i].flag
          /\ log[j].what \in {"tool", "critic"} /\ log[j].flag
          /\ log[Len(log)].step = log[j].step + 1

\* C12: when a provider failure survives the router during a task run
\* through the top-level executor, the task ends as failed: the monitor is
\* marked failed, a failure result (success false, status failed) is
\* recorded, and the task is never recorded as completed.
C12_ProviderFailureMarksTaskFailed ==
    (EventsOf("return_failed") # {} /\ active_status # "running") =>
        /\ active_status = "failed"
        /\ task_result.success = FALSE
        /\ monitor_status = "failed"

(***************************************************************************)
(* Claims about the tool dispatchers.                                      *)
(***************************************************************************)
\* C10: for the manager's, coder's, analyst's and critic's dispatcher, a
\* tool call whose handling fails (the collaborator raises, or the
\* arguments are not parseable JSON) yields a descriptive error string and
\* never an exception.
C10_DispatcherNeverRaises ==
    ( /\ tphase = "done"
      /\ tagent \in {"manager", "coder", "analyst", "critic"}
      /\ \/ JsonLoads(tcall.arguments) = "JSONDecodeError"
         \/ tcall.name \in ToolTable(tagent) /\ tcall.collaborator = "raises" )
    =>
    ( /\ tout.kind = "return"
      /\ tout.txt # << >>
      /\ tout.txt[1] = "Error executing " )

\* what does hold: the manager's dispatcher never raises
ManagerDispatcherNeverRaises ==
    (tphase = "done" /\ tagent = "manager") => tout.kind = "return"

Contains(txt, token) == \E i \in DOMAIN txt : txt[i] = token
UnknownToManager ==
    tphase = "done" /\ tagent = "manager" /\ tcall.name \notin ToolTable("manager")

KeyPicked == pick_count' # pick_count
\* offsets, in rotation order from the cycle's position, of the keys whose
\* hit counter does not exceed the provider's threshold
WithinThreshold ==
    {i \in 0..(pool - 1) :
        EligibleUpToThreshold(kprovider, rate_limit_hits[CycleAt(key_pos, i, pool)])}

\* C14: _get_next_key returns the next credential in round-robin order whose
\* hit counter does not exceed the threshold (3 for openrouter, 2 for
\* gemini; a counter equal to the threshold is still eligible), and when
\* every credential is over the threshold, the next one in rotation order.
C14_NextKeySelection ==
    [][ KeyPicked =>
          api_key' = IF WithinThreshold # {}
                     THEN CycleAt(key_pos,
                                  CHOOSE i \in WithinThreshold :
                                      \A j \in WithinThreshold : i <= j,
                                  pool)
                     ELSE CycleAt(key_pos, 0, pool) ]_vars

\* what the code does: the same with "hits < threshold" as the test
NextKeySelectionBelowThreshold ==
    [][ KeyPicked =>
          LET below == {i \in 0..(pool - 1) :
                          Eligible(kprovider, rate_limit_hits[CycleAt(key_pos, i, pool)])}
          IN api_key' = IF below # {}
                        THEN CycleAt(key_pos,
                                     CHOOSE i \in below : \A j \in below : i <= j, pool)
                        ELSE CycleAt(key_pos, 0, pool) ]_vars

\* C15: with N credentials none of which is rate-limited, after any M calls
\* of _get_next_key every credential was selected at least floor(M/N) times.
C15_RotationFairness ==
    (pool >= 1 /\ \A k \in 1..pool : Eligible(kprovider, rate_limit_hits[k])) =>
        \A k \in 1..pool : pick_count[k] >= Picks \div pool
C15_Witness ==
    /\ pool = 3 /\ Picks = 7
    /\ \A k \in 1..pool : Eligible(kprovider, rate_limit_hits[k])
    /\ \A k \in 1..pool : pick_count[k] >= 2

\* C16: each _handle_rate_limit adds one to the credential's hit counter and
\* sleeps min(2^hits, 30) seconds, hits being the new count; the delays of
\* one credential are non-decreasing and never exceed 30 seconds.
C16_BackoffSchedule ==
    \A k \in 1..pool :
        /\ Len(backoffs[k]) = rate_limit_hits[k]
        /\ \A i \in DOMAIN backoffs[k] :
              /\ backoffs[k][i] = Min(2 ^ i, 30)
              /\ backoffs[k][i] <= 30
              /\ i > 1 => backoffs[k][i - 1] <= backoffs[k][i]
C16_Witness ==
    \E k \in 1..pool :
        /\ rate_limit_hits[k] >= 6
        /\ backoffs[k][4] = 16 /\ backoffs[k][5] = 30 /\ backoffs[k][6] = 30

(***************************************************************************)
(* Claims about the Gemini response conversion.                            *)
(***************************************************************************)
FinishReasons == {"stop", "length", "content_filter", "tool_calls"}

\* C13: for every Gemini response that lacks candidates, with or without a
\* promptFeedback.blockReason, the conversion returns a well-formed result
\* (one choice with an assistant message and a finish_reason) and does not
\* raise.
C13_NoCandidatesDegrades ==
    (gphase = "done" /\ graw.candidates = 0) =>
        /\ gout.shape = "choices"
        /\ gout.message.role = "assistant"
        /\ gout.finish \in FinishReasons

\* what does hold: a blocked prompt is converted to an empty message with
\* finish_reason content_filter
BlockedPromptDegrades ==
    (gphase = "done" /\ graw.candidates = 0 /\ graw.blockReason) =>
        /\ gout.shape = "choices"
        /\ gout.message = Msg("assistant", Str(<< >>), << >>, NoId)
        /\ gout.finish = "content_filter"

(***************************************************************************)
(* Claims about call spacing.                                              *)
(***************************************************************************)
\* C17: under any interleaving of callers sharing the handler, any two
\* calls to the same provider that pass _wait_for_rate_limit do so at least
\* min_call_interval[provider] apart.
C17_CallsAreSpaced ==
    \A i, j \in DOMAIN passes :
        i < j => passes[j].at - passes[i].at >= MinCallInterval(wprovider)

\* what does hold: the calls of one caller are spaced
CallsOfOneCallerAreSpaced ==
    \A i, j \in DOMAIN passes :
        (i < j /\ passes[i].caller = passes[j].caller) =>
            passes[j].at - passes[i].at >= MinCallInterval(wprovider)

(***************************************************************************)
(* Claims about the TaskMonitor.                                           *)
(***************************************************************************)
\* a search whose non-empty query shares no term with the expected terms
OffTopicSearch(a) ==
    /\ a.type = "search" /\ a.detail # << >>
    /\ \A term \in expected_search_terms : ~IsSubstring(Lower(term), Lower(a.detail))

\* C18: with a non-empty expected-term set, three consecutive search
\* activities whose non-empty queries share no term with the expected terms
\* raise deviation_count to 3 and make should_redirect_task() true.
C18_ThreeOffTopicSearches ==
    ( /\ expected_search_terms # {}
      /\ Len(activities) >= 3
      /\ \A i \in (Len(activities) - 2)..Len(activities) : OffTopicSearch(activities[i]) )
    => (deviation_count >= 3 /\ ShouldRedirectTask)

\* what does hold: three consecutive searches with an empty query are
\* counted as three deviations
ThreeEmptySearches ==
    ( /\ Len(activities) >= 3
      /\ \A i \in (Len(activities) - 2)..Len(activities) :
            activities[i].type = "search" /\ activities[i].detail = << >>
                /\ activities[i].via = "log_search_query" )
    => (deviation_count >= 3 /\ ShouldRedirectTask)

Terminal == {"completed", "failed"}
ActivityLogged == Len(activities') = Len(activities) + 1
LoggedVia == activities'[Len(activities')].via

\* C19: completed and failed are reached only through mark_task_completed
\* and mark_task_failed, and once the status is completed or failed no
\* log_activity, log_search_query, log_page_visit or log_content_extraction
\* changes it.
C19_TerminalStatus ==
    /\ [][ (current_status' \in Terminal /\ current_status' # current_status) =>
             (~ActivityLogged \/ LoggedVia = "mark_task_failed") ]_vars
    /\ [][ (current_status \in Terminal /\ ActivityLogged
                /\ LoggedVia # "mark_task_failed") =>
             current_status' = current_status ]_vars

\* what does hold: the logging calls never set completed or failed
OnlyMarksReachTerminal ==
    [][ (current_status' \in Terminal /\ current_status' # current_status) =>
          (~ActivityLogged \/ LoggedVia = "mark_task_failed") ]_vars

\* C20: an activity logged more than 300 s after the previous activity of
\* the monitor has the +0.6 inactivity contribution in its deviation_score,
\* the total clamped to [0,1]; an error activity after six idle minutes
\* scores 1.0 and is counted as a deviation.
C20_InactivityContribution ==
    \A i \in 2..Len(activities) :
        activities[i].idle > 300 =>
            activities[i].deviation_score =
                Min(TypeScore(activities[i].type, activities[i].detail,
                              expected_search_terms) + 6, 10)

\* what does hold: the score is the type's contribution alone
ScoreIsTypeScore ==
    \A i \in DOMAIN activities :
        activities[i].deviation_score =
            Min(TypeScore(activities[i].type, activities[i].detail,
                          expected_search_terms), 10)

\* C21: on a monitor with no search query logged, should_redirect_task()
\* is true and get_redirect_instructions() begins with
\* "Perform web search for:", whatever other activities were logged.
C21_NoSearchRedirects ==
    search_queries_executed = 0 =>
        /\ ShouldRedirectTask
        /\ GetRedirectInstructions[1] = "Perform web search for: "
C21_Witness ==
    /\ current_status # "none"
    /\ search_queries_executed = 0
    /\ content_extracted = 0
    /\ Len(activities) >= 2
    /\ ShouldRedirectTask
    /\ GetRedirectInstructions[1] = "Perform web search for: "

(***************************************************************************)
(* Claims about the event bus.                                             *)
(***************************************************************************)
PublishedEvents == [i \in DOMAIN published |-> published[i].event]

\* C22: with a single subscriber, the events subscribe(task_id) yields are
\* the events published with publish(task_id, ...), unmodified and in
\* publication order, whether published before or after the subscriber
\* started waiting.
C22_EventsInPublicationOrder ==
    /\ Len(yielded) <= Len(published)
    /\ yielded = SubSeq(PublishedEvents, 1, Len(yielded))
    /\ yielded \o bus_queue.items = PublishedEvents
C22_Witness ==
    /\ Len(published) = MaxEvents
    /\ yielded = PublishedEvents
    /\ \E i, j \in DOMAIN published :
          /\ ~published[i].subscribed /\ published[j].subscribed
          /\ published[i].event # published[j].event

\* every published event is eventually yielded
EveryEventDelivered == <>[](yielded = PublishedEvents)

(***************************************************************************)
(* Claims about the process sandbox.                                       *)
(***************************************************************************)
\* C23: for a command that has not exited when the timeout elapses,
\* run_with_limits kills the process and returns, without raising, a
\* CompletedProcess with returncode -1 and stderr "Timed out after
\* <timeout>s".
C23_TimeoutKillsAndReturns ==
    (sret # NoReturn /\ sexited_at = -1) =>
        /\ sproc = "killed"
        /\ sret.kind = "CompletedProcess"
        /\ sret.returncode = -1 /\ sret.returncode # 0
        /\ sret.stderr = <<"Timed out after ", stimeout, "s">>
C23_Witness ==
    /\ sduration > stimeout
    /\ sclock = stimeout
    /\ sproc = "killed"
    /\ sret = TimedOut(stimeout)

(***************************************************************************)
(* Claims about the research phase.                                        *)
(***************************************************************************)
IsOrderedByQuery(results) ==
    \A i, j \in DOMAIN results : i < j => results[i].query < results[j].query

\* C24: within one _execute_research_phase never more than 3 of the
\* phase's queries execute at once, and the phase returns only after every
\* query has finished, its result being the per-query results concatenated
\* in the order of the query list.
C24_BoundedParallelPhase ==
    /\ Cardinality(Running) <= 3
    /\ peak <= 3
    /\ phase_pc = "returned" =>
          /\ \A q \in 1..search_queries : qstate[q] = "done"
          /\ IsOrderedByQuery(phase_results)
          /\ \A q \in 1..search_queries :
                (batches[q] # << >>) <=>
                    (\E i \in DOMAIN phase_results : phase_results[i].query = q)
          /\ Len(phase_results) =
                Cardinality({q \in 1..search_queries : batches[q] # << >>})
C24_Witness ==
    /\ phase_pc = "returned"
    /\ search_queries = 5
    /\ peak = 3
    /\ Len(phase_results) >= 2

(***************************************************************************)
(* Claims about what a successful call does to the credential's counter.   *)
(***************************************************************************)
\* C25: the per-credential counter counts consecutive rate-limit hits: a
\* call that succeeds with a credential resets that credential's counter, so
\* a credential skipped for being over the threshold becomes eligible again
\* and none stays deprioritized forever.
C25_SuccessResetsCounter ==
    key_ok => Eligible(kprovider, rate_limit_hits[api_key])

\* what the code does: the counter of a credential never goes down
CounterNeverDecreases ==
    [][ \A k \in 1..pool : rate_limit_hits'[k] >= rate_limit_hits[k] ]_vars

(***************************************************************************)
(* Claims about RateLimitManager.execute_with_backoff.                     *)
(***************************************************************************)
\* C26: execute_with_backoff re-invokes func after each failed attempt, up
\* to max_retries + 1 invocations in all, returns the first successful
\* result, and raises only when func itself failed on all max_retries + 1
\* invocations.
C26_RetriesUntilExhausted ==
    /\ invocations <= xmax_retries + 1
    /\ xpc = "returned" => invocations = func_failures + 1
    /\ xpc = "raised" => func_failures = xmax_retries + 1
    /\ xpc = "try" => invocations = attempt

\* what the code does: func is invoked a second time only after a sleep that
\* outlasted the skip window, and never more than max_retries + 1 times
SecondInvocationNeedsLongSleep ==
    /\ invocations <= xmax_retries + 1
    /\ invocations >= 2 => xbase_delay >= SkipWindow

(***************************************************************************)
(* Claims about the workspaces of concurrent tasks.                        *)
(***************************************************************************)
\* C27: when two tasks run concurrently, in any construction and
\* interleaving order, every file or code-execution tool call a task's loop
\* dispatches operates on that task's own workspace.
C27_ToolCallsUseOwnWorkspace ==
    \A i \in DOMAIN tool_log : tool_log[i].dir = WorkspaceOf(tool_log[i].task)

\* what the code does: a tool call uses the workspace of a constructed
\* manager, the one constructed last
ToolCallsUseSomeWorkspace ==
    /\ \A i \in DOMAIN tool_log : \E task \in managers : tool_log[i].dir = WorkspaceOf(task)
    /\ managers # {} =>
          /\ fm_workspace_path = ci_workspace_root
          /\ \E task \in managers : fm_workspace_path = WorkspaceOf(task)

(***************************************************************************)
(* Claims about cancelling a task through the API.                         *)
(***************************************************************************)
\* C28: after cancel_task was accepted for a running task, the task's loop
\* sees the cancellation at the top of its next turn: it returns
\* "Task cancelled" and starts no further provider call.
C28_ApiCancelStopsLoop ==
    [][ (active_status = "cancelled" /\ pc = "top" /\ LoopCondition /\ pc' # "top") =>
            (pc' = "done" /\ result' = TaskCancelled) ]_vars

\* what the code does: the loop consults the flag file alone, and the
\* executor overwrites the cancelled status when the loop has returned
ApiCancelLeavesFlagAlone ==
    [][ active_status' = "cancelled" /\ active_status # "cancelled" =>
            cancelled' = cancelled ]_vars

(***************************************************************************)
(* Claims about feeding a converted response back to the backend.          *)
(***************************************************************************)
\* C29: every assistant message _convert_gemini_response_to_openai_format
\* returns, once appended to the transcript, is accepted without error by
\* _convert_to_gemini_format on the next call, also when the response
\* carried no text (tool calls only, or empty candidate content).
C29_ConvertedMessageIsAccepted ==
    gphase = "next" => gnext.shape = "contents"

\* what the code does: the transcript is accepted exactly when the response
\* carried some text or was a blocked prompt
AcceptedIffContentKey ==
    gphase = "next" =>
        (gnext.shape = "contents" <=> gout.message.content # Absent)

(***************************************************************************)
(* Claims about the critic's review.                                       *)
(***************************************************************************)
ShortConfirm(r) ==
    /\ r.finish_reason = "stop" /\ ~r.tool_calls
    /\ r.content.len <= 400
    /\ StartsWith(r.content.txt, Chars("CONFIRM"))

\* C30: when the critic model's final reply is a short answer starting with
\* CONFIRM (at most 400 characters, finish_reason stop, no tool calls),
\* execute_task returns that reply, so the returned string starts with
\* CONFIRM and the manager's reflection gate accepts it.
C30_ShortConfirmIsReturned ==
    (critic_pc = "returned" /\ ShortConfirm(reply)) =>
        /\ critic_review = reply.content.txt
        /\ Confirms(critic_review)

\* what the code does: a reply is returned when it is longer than 400
\* characters (or was cut off and then the loop ended); after a short
\* complete reply the fixed closing sentence is returned
ShortReplyIsNeverReturned ==
    (critic_pc = "returned" /\ reply.finish_reason = "stop" /\ ~reply.tool_calls) =>
        IF reply.content.len > 400
        THEN critic_review = reply.content.txt
        ELSE critic_review = EvaluationCompleted
====
